---- MODULE Spec2Model ----
(***************************************************************************)
(* A model of the FactorioComputer compiler: the function compiler and the *)
(* linker of compiler.rs and the expression / statement parser of          *)
(* parser.rs.                                                              *)
(*                                                                         *)
(* Names are sequences of one-character strings, so that the `signal_`     *)
(* prefix test and the parse of the signal number are computed as the code *)
(* computes them.  An instruction is a record [op] or [op, arg].  A        *)
(* CompileResult<()> is the sequence of its diagnostics: empty is Ok.      *)
(***************************************************************************)
EXTENDS Integers, Sequences, FiniteSets, TLC

VARIABLES
    source,             \* the text of the SourceFile that tokenize is given
    lexed,              \* what tokenize returned for it
    instr,              \* an Instruction to be written as text
    instr_text,         \* the text its Display wrote
    instr_parsed,       \* what TryFrom<&str> returned for that text
    tokens,             \* the tokens of the source file, when it is parsed
    module,             \* the Vec<Function> that compile_module is given
    functions_by_name,  \* compile_module: HashMap<String, FunctionInfo>
    functions_by_idx,   \* compile_module: Vec<FunctionInfo>
    compiled_funs,      \* compile_module: Vec<Vec<Instruction>>
    errors,             \* compile_module: Vec<FileTaggedError>
    fn_idx,             \* how many functions the loop of compile_module has taken
    ctx,                \* the CompileCtx of the function being compiled
    frames,             \* the open emit_statement / emit_block calls, outermost first
    phase,              \* where compile_module stands
    program,            \* compile_module's result when it is Ok
    stmts,              \* statements lowered so far (bounded by MaxStmts)
    last                \* the statement lowered last, with the ctx before it

text_vars == <<source, lexed, instr, instr_text, instr_parsed>>

vars == <<text_vars, tokens, module, functions_by_name, functions_by_idx, compiled_funs, errors,
          fn_idx, ctx, frames, phase, program, stmts, last>>

-----------------------------------------------------------------------------
(* Bounds of the model *)

MaxStmts == 3
MaxNest == 2
MaxOperators == 2
MaxBodyStatements == 2
MaxSourceLen == 4
MaxTokens == 3

-----------------------------------------------------------------------------
(* Strings *)

SIGNAL_PREFIX == <<"s", "i", "g", "n", "a", "l", "_">>

starts_with(name, prefix) ==
    /\ Len(name) >= Len(prefix)
    /\ SubSeq(name, 1, Len(prefix)) = prefix

Digits == {"0", "1", "2", "3", "4", "5", "6", "7", "8", "9"}

to_digit(c) ==
    CASE c = "0" -> 0 [] c = "1" -> 1 [] c = "2" -> 2 [] c = "3" -> 3
      [] c = "4" -> 4 [] c = "5" -> 5 [] c = "6" -> 6 [] c = "7" -> 7
      [] c = "8" -> 8 [] c = "9" -> 9

I32_MAX == 2147483647

I32_MIN == (0 - I32_MAX) - 1

\* The digits of s added to acc (sign 1) or subtracted from it (sign -1) with
\* checked i32 arithmetic, as str::parse does.
RECURSIVE digits_value(_, _, _)
digits_value(s, acc, sign) ==
    IF s = <<>> THEN [ok |-> TRUE, v |-> acc]
    ELSE IF sign = 1 /\ acc > (I32_MAX - to_digit(Head(s))) \div 10 THEN [ok |-> FALSE]
    ELSE IF sign = -1 /\ acc < (I32_MIN + to_digit(Head(s)) + 9) \div 10 THEN [ok |-> FALSE]
    ELSE digits_value(Tail(s), acc * 10 + sign * to_digit(Head(s)), sign)

\* str::parse::<i32>: an optional sign, then one or more decimal digits, in range.
parse_i32(s) ==
    LET signed == s # <<>> /\ Head(s) \in {"+", "-"}
        body == IF signed THEN Tail(s) ELSE s
    IN IF body = <<>> \/ \E i \in 1..Len(body) : body[i] \notin Digits
       THEN [ok |-> FALSE]
       ELSE digits_value(body, 0, IF signed /\ Head(s) = "-" THEN -1 ELSE 1)

-----------------------------------------------------------------------------
(* error_handling.rs and the results of the compiler's helpers *)

FileTaggedError(position, msg) == [position |-> position, msg |-> msg]

Ok(v) == [ok |-> TRUE, v |-> v]
Err(position, msg) == [ok |-> FALSE, err |-> <<FileTaggedError(position, msg)>>]

\* The outcome of a lowering routine: the context it leaves and its diagnostics.
Res(c, err) == [ctx |-> c, err |-> err]

\* The `?` of the code on a CompileResult<()>: an Err returns at once, an Ok
\* goes on with the context as the call left it.
Try(r, F(_)) == IF r.err # <<>> THEN r ELSE F(r.ctx)

\* A value computed once and used under a name.
With(v, F(_)) == F(v)

-----------------------------------------------------------------------------
(* CompileCtx *)

Other == [kind |-> "Other"]
While(continue_inst_addresses, break_inst_addresses) ==
    [kind |-> "While",
     continue_inst_addresses |-> continue_inst_addresses,
     break_inst_addresses |-> break_inst_addresses]

Scope(scope_vars, starting_stack_size, scope_type) ==
    [scope_vars |-> scope_vars,
     starting_stack_size |-> starting_stack_size,
     scope_type |-> scope_type]

\* HashMap<String, i32> as the set of its entries.
map_contains(m, name) == \E b \in m : b.name = name
map_get(m, name) == (CHOOSE b \in m : b.name = name).offset
map_insert(m, name, offset) ==
    {b \in m : b.name # name} \cup {[name |-> name, offset |-> offset]}

stack_delta(instruction) ==
    CASE instruction.op \in {"JumpIfNonZero", "JumpIfZero", "Save", "Pop"} -> -1
      [] instruction.op \in {"Load", "Constant"} -> 1
      [] instruction.op \in {"Add", "Subtract", "Divide", "Multiply", "Power",
                             "Remainder", "ShiftLeft", "ShiftRight", "And", "Or",
                             "Xor", "Equal", "NotEqual", "GreaterThan", "LessThan",
                             "GreaterThanOrEqual", "LessThanOrEqual"} -> -1
      [] OTHER -> 0

emit(c, instruction) ==
    [c EXCEPT !.instructions = Append(@, instruction),
              !.stack_size = @ + stack_delta(instruction)]

RECURSIVE push_pops(_, _)
push_pops(instructions, n) ==
    IF n <= 0 THEN instructions
    ELSE push_pops(Append(instructions, [op |-> "Pop"]), n - 1)

RECURSIVE emit_pops(_, _)
emit_pops(c, n) ==
    IF n <= 0 THEN c ELSE emit_pops(emit(c, [op |-> "Pop"]), n - 1)

open_scope(c, scope_type) ==
    [c EXCEPT !.scopes = Append(@, Scope({}, c.stack_size, scope_type))]

\* Returns the context without its innermost scope, that scope's variables popped.
end_scope(c) ==
    LET scope == c.scopes[Len(c.scopes)]
        popped == [c EXCEPT !.scopes = SubSeq(@, 1, Len(@) - 1)]
    IN emit_pops(popped, c.stack_size - scope.starting_stack_size)

\* scope_idx is 0-based, as in the code.
prepare_for_premature_scope_end(c, scope_idx) ==
    LET scope == c.scopes[scope_idx + 1]
    IN [c EXCEPT !.instructions =
            push_pops(@, c.stack_size - scope.starting_stack_size)]

\* A lookup that searches the scopes from the innermost outwards, which the code
\* does not do: the properties of name resolution must tell the two apart.
RECURSIVE get_variable_pos_innermost_from(_, _, _, _)
get_variable_pos_innermost_from(scopes, i, name, name_ref) ==
    IF i < 1 THEN Err(name_ref, "No variable exists with this name")
    ELSE IF map_contains(scopes[i].scope_vars, name)
         THEN Ok(map_get(scopes[i].scope_vars, name))
         ELSE get_variable_pos_innermost_from(scopes, i - 1, name, name_ref)

get_variable_pos_innermost_first(c, name, name_ref) ==
    get_variable_pos_innermost_from(c.scopes, Len(c.scopes), name, name_ref)

RECURSIVE get_variable_pos_from(_, _, _, _)
get_variable_pos_from(scopes, i, name, name_ref) ==
    IF i > Len(scopes) THEN Err(name_ref, "No variable exists with this name")
    ELSE IF map_contains(scopes[i].scope_vars, name)
         THEN Ok(map_get(scopes[i].scope_vars, name))
         ELSE get_variable_pos_from(scopes, i + 1, name, name_ref)

get_variable_pos(c, name, name_ref) ==
    get_variable_pos_from(c.scopes, 1, name, name_ref)

SIGNAL_COUNT == 5

get_variable_address(c, name, name_ref, reading) ==
    IF starts_with(name, SIGNAL_PREFIX)
    THEN LET parsed == parse_i32(SubSeq(name, 8, Len(name)))
         IN IF ~parsed.ok
            THEN Err(name_ref, "Signal number must be a valid integer")
            ELSE IF parsed.v <= 0 \/ parsed.v > SIGNAL_COUNT
                 THEN Err(name_ref, "Invalid signal number. Must be in range [0-5]")
                 ELSE Ok(IF reading THEN 0 - (SIGNAL_COUNT + parsed.v) ELSE 0 - parsed.v)
    ELSE LET pos == get_variable_pos(c, name, name_ref)
         IN IF ~pos.ok THEN pos
            ELSE Ok(c.stack_size - pos.v)

save_to_variable(c, name, name_ref) ==
    LET addr == get_variable_address(c, name, name_ref, FALSE)
    IN IF ~addr.ok THEN Res(c, addr.err)
       ELSE Res(emit(c, [op |-> "Save", arg |-> addr.v]), <<>>)

load_from_variable(c, name, name_ref) ==
    LET addr == get_variable_address(c, name, name_ref, TRUE)
    IN IF ~addr.ok THEN Res(c, addr.err)
       ELSE Res(emit(c, [op |-> "Load", arg |-> addr.v]), <<>>)

\* A declaration that binds the name one slot above the value on the stack,
\* which the code does not do.
add_variable_above_top(c, name) ==
    [c EXCEPT !.scopes[Len(c.scopes)].scope_vars = map_insert(@, name, c.stack_size)]

add_variable(c, name) ==
    [c EXCEPT !.scopes[Len(c.scopes)].scope_vars =
        map_insert(@, name, c.stack_size - 1)]

-----------------------------------------------------------------------------
(* ast.rs *)

Literal(value) == [k |-> "Literal", value |-> value]
Variable(name, pos) == [k |-> "Variable", name |-> name, pos |-> pos]
Binary(left, right, operator) ==
    [k |-> "Binary", left |-> left, right |-> right, operator |-> operator]
Unary(value, operator) == [k |-> "Unary", value |-> value, operator |-> operator]
Call(function_name, function_name_ref, arguments, arguments_ref) ==
    [function_name |-> function_name, function_name_ref |-> function_name_ref,
     arguments |-> arguments, arguments_ref |-> arguments_ref]
CallExpr(call) == [k |-> "Call", call |-> call]

BinaryOperator ==
    {"Add", "Subtract", "Multiply", "Divide", "And", "Or", "Xor", "ShiftLeft",
     "ShiftRight", "Equals", "NotEquals", "GreaterThan", "LessThan",
     "GreaterThanOrEqual", "Remainder", "LessThanOrEqual", "Power"}

Assignment(variable_name, variable_name_ref, value) ==
    [k |-> "Assignment", variable_name |-> variable_name,
     variable_name_ref |-> variable_name_ref, value |-> value]
Return(position) == [k |-> "Return", position |-> position]
ReturnValue(value, value_ref) ==
    [k |-> "ReturnValue", value |-> value, value_ref |-> value_ref]
Continue(pos) == [k |-> "Continue", pos |-> pos]
Break(pos) == [k |-> "Break", pos |-> pos]
CallStatement(call) == [k |-> "Call", call |-> call]

Function(name, name_ref, argument_names, returns_value) ==
    [name |-> name, name_ref |-> name_ref, argument_names |-> argument_names,
     returns_value |-> returns_value]

-----------------------------------------------------------------------------
(* compiler.rs: expressions and calls *)

FunctionInfo(arg_count, returns_value, id, start_offset) ==
    [arg_count |-> arg_count, returns_value |-> returns_value, id |-> id,
     start_offset |-> start_offset]

\* HashMap<String, FunctionInfo> as the set of its entries.
fmap_contains(m, name) == \E e \in m : e.name = name
fmap_get(m, name) == (CHOOSE e \in m : e.name = name).info
fmap_insert(m, name, info) ==
    {e \in m : e.name # name} \cup {[name |-> name, info |-> info]}

\* The match of emit_expression that picks the opcode of a binary operator.
binary_instruction(operator) ==
    CASE operator = "Add" -> [op |-> "Add"]
      [] operator = "Subtract" -> [op |-> "Subtract"]
      [] operator = "Multiply" -> [op |-> "Multiply"]
      [] operator = "Divide" -> [op |-> "Divide"]
      [] operator = "And" -> [op |-> "And"]
      [] operator = "Or" -> [op |-> "Or"]
      [] operator = "Xor" -> [op |-> "Multiply"]
      [] operator = "ShiftLeft" -> [op |-> "ShiftLeft"]
      [] operator = "ShiftRight" -> [op |-> "ShiftRight"]
      [] operator = "Equals" -> [op |-> "Equal"]
      [] operator = "NotEquals" -> [op |-> "NotEqual"]
      [] operator = "GreaterThan" -> [op |-> "GreaterThan"]
      [] operator = "LessThan" -> [op |-> "LessThan"]
      [] operator = "GreaterThanOrEqual" -> [op |-> "GreaterThanOrEqual"]
      [] operator = "Remainder" -> [op |-> "Remainder"]
      [] operator = "LessThanOrEqual" -> [op |-> "LessThanOrEqual"]
      [] operator = "Power" -> [op |-> "Power"]

RECURSIVE emit_expression(_, _)
RECURSIVE emit_call(_, _, _)
RECURSIVE emit_arguments(_, _, _)

\* The loop of emit_call over call.arguments; `?` leaves at the first failure.
emit_arguments(arguments, i, c) ==
    IF i > Len(arguments) THEN Res(c, <<>>)
    ELSE Try(emit_expression(arguments[i], c),
             LAMBDA c1 : emit_arguments(arguments, i + 1, c1))

\* A call that leaves the unused return value of a call statement on the
\* stack, which the code does not do.
emit_call_keeping_return_slot(call, c, using_return_value) ==
    IF ~fmap_contains(functions_by_name, call.function_name)
    THEN Res(c, Err(call.function_name_ref, "No function exists with name").err)
    ELSE
    LET info == fmap_get(functions_by_name, call.function_name)
    IN  IF ~info.returns_value /\ using_return_value
        THEN Res(c, Err(call.function_name_ref,
                 "Cannot use a function that does not return a value within an expression").err)
        ELSE IF info.arg_count # Len(call.arguments)
        THEN Res(c, Err(call.arguments_ref, "Wrong number of arguments").err)
        ELSE
        Try(emit_arguments(call.arguments, 1,
                IF info.returns_value
                THEN emit(c, [op |-> "Constant", arg |-> 0])
                ELSE c),
            LAMBDA c1 :
                Res(emit_pops(emit(c1, [op |-> "JumpSubRoutine", arg |-> info.id]),
                              Len(call.arguments)),
                    <<>>))

\* A call that reserves the slot of the return value before it compares the
\* argument counts, which the code does not do.
emit_call_reserving_first(call, c, using_return_value) ==
    IF ~fmap_contains(functions_by_name, call.function_name)
    THEN Res(c, Err(call.function_name_ref, "No function exists with name").err)
    ELSE
    LET info == fmap_get(functions_by_name, call.function_name)
    IN  IF ~info.returns_value /\ using_return_value
        THEN Res(c, Err(call.function_name_ref,
                 "Cannot use a function that does not return a value within an expression").err)
        ELSE
        With(IF info.returns_value THEN emit(c, [op |-> "Constant", arg |-> 0]) ELSE c,
             LAMBDA c0 :
                IF info.arg_count # Len(call.arguments)
                THEN Res(c0, Err(call.arguments_ref, "Wrong number of arguments").err)
                ELSE
                Try(emit_arguments(call.arguments, 1, c0),
                    LAMBDA c1 :
                        LET arg_count == Len(call.arguments)
                            c3 == emit_pops(emit(c1, [op |-> "JumpSubRoutine", arg |-> info.id]),
                                            arg_count)
                        IN Res(IF ~using_return_value /\ info.returns_value
                               THEN emit(c3, [op |-> "Pop"])
                               ELSE c3,
                               <<>>)))

emit_call(call, c, using_return_value) ==
    IF ~fmap_contains(functions_by_name, call.function_name)
    THEN Res(c, Err(call.function_name_ref, "No function exists with name").err)
    ELSE
    LET info == fmap_get(functions_by_name, call.function_name)
    IN  IF ~info.returns_value /\ using_return_value
        THEN Res(c, Err(call.function_name_ref,
                 "Cannot use a function that does not return a value within an expression").err)
        ELSE IF info.arg_count # Len(call.arguments)
        THEN Res(c, Err(call.arguments_ref, "Wrong number of arguments").err)
        ELSE
        Try(emit_arguments(call.arguments, 1,
                IF info.returns_value
                THEN emit(c, [op |-> "Constant", arg |-> 0])
                ELSE c),
            LAMBDA c1 :
                LET arg_count == Len(call.arguments)
                    c3 == emit_pops(emit(c1, [op |-> "JumpSubRoutine", arg |-> info.id]),
                                    arg_count)
                IN Res(IF ~using_return_value /\ info.returns_value
                       THEN emit(c3, [op |-> "Pop"])
                       ELSE c3,
                       <<>>))

emit_expression(expr, c) ==
    CASE expr.k = "Binary" ->
            Try(emit_expression(expr.right, c),
                LAMBDA c1 :
                    Try(emit_expression(expr.left, c1),
                        LAMBDA c2 :
                            Res(emit(c2, binary_instruction(expr.operator)), <<>>)))
      [] expr.k = "Unary" ->
            IF expr.operator = "Not"
            THEN Try(emit_expression(expr.value, c),
                     LAMBDA c1 : Res(emit(c1, [op |-> "Not"]), <<>>))
            ELSE IF expr.value.k = "Literal"
                 THEN Res(emit(c, [op |-> "Constant", arg |-> 0 - expr.value.value]), <<>>)
                 ELSE Try(emit_expression(expr.value,
                                          emit(c, [op |-> "Constant", arg |-> -1])),
                          LAMBDA c1 : Res(emit(c1, [op |-> "Multiply"]), <<>>))
      [] expr.k = "Call" -> emit_call(expr.call, c, TRUE)
      [] expr.k = "Variable" -> load_from_variable(c, expr.name, expr.pos)
      [] expr.k = "Literal" ->
            Res(emit(c, [op |-> "Constant", arg |-> expr.value]), <<>>)

-----------------------------------------------------------------------------
(* compiler.rs: statements without a block *)

emit_return(c) ==
    emit(prepare_for_premature_scope_end(c, 0), [op |-> "Return"])

\* The innermost While scope, 0-based, or -1: the reverse scan of the scopes.
RECURSIVE first_while_scope(_, _)
first_while_scope(scopes, i) ==
    IF i = 0 THEN -1
    ELSE IF scopes[i].scope_type.kind = "While" THEN i - 1
         ELSE first_while_scope(scopes, i - 1)

try_emit_loop_control_flow(is_continue, keyword_ref, c) ==
    LET scope_idx == first_while_scope(c.scopes, Len(c.scopes))
    IN IF scope_idx < 0
       THEN Res(c, Err(keyword_ref,
                "Not in a loop scope - cannot use break or continue keywords").err)
       ELSE
       LET addr == Len(c.instructions)
           c1 == IF is_continue
                 THEN [c EXCEPT !.scopes[scope_idx + 1].scope_type.continue_inst_addresses =
                                    Append(@, addr)]
                 ELSE [c EXCEPT !.scopes[scope_idx + 1].scope_type.break_inst_addresses =
                                    Append(@, addr)]
           c2 == prepare_for_premature_scope_end(c1, scope_idx)
       IN Res(emit(c2, [op |-> "Jump", arg |-> -1]), <<>>)

\* The match on save_to_variable of Statement::Assignment: a name that does
\* not resolve is declared on the value the expression left on the stack.
save_or_add_variable(c, name, name_ref) ==
    With(save_to_variable(c, name, name_ref),
         LAMBDA s : IF s.err = <<>> THEN s ELSE Res(add_variable(c, name), <<>>))

\* emit_statement for the statements that hold no block.
emit_statement(statement, c) ==
    CASE statement.k = "Assignment" ->
            Try(emit_expression(statement.value, c),
                LAMBDA c1 : save_or_add_variable(c1, statement.variable_name,
                                                 statement.variable_name_ref))
      [] statement.k = "Return" ->
            IF c.return_value_save_offset.some
            THEN Res(c, Err(statement.position, "Must return a value from this function").err)
            ELSE Res(emit_return(c), <<>>)
      [] statement.k = "ReturnValue" ->
            IF c.return_value_save_offset.some
            THEN Try(emit_expression(statement.value, c),
                     LAMBDA c1 :
                         Res(emit_return(emit(c1,
                                [op |-> "Save",
                                 arg |-> c1.stack_size - c.return_value_save_offset.v])),
                             <<>>))
            ELSE Res(c, Err(statement.value_ref, "Cannot return a value from this function").err)
      [] statement.k = "Continue" -> try_emit_loop_control_flow(TRUE, statement.pos, c)
      [] statement.k = "Break" -> try_emit_loop_control_flow(FALSE, statement.pos, c)
      [] statement.k = "Call" -> emit_call(statement.call, c, FALSE)

-----------------------------------------------------------------------------
(* compiler.rs: the statement loop of emit_block, one statement per step.   *)
(* A frame is an emit_block call that has not returned: the block of the    *)
(* function, of an if segment, of an else or of a while, with the locals of *)
(* the emit_statement call that made it and the errors vector of the block. *)

\* Nothing has been tokenized and no instruction has been written as text.
NotRun == [kind |-> "None"]
NoText ==
    /\ source = <<>>
    /\ lexed = NotRun
    /\ instr = NotRun
    /\ instr_text = <<>>
    /\ instr_parsed = NotRun

NoStatement == [k |-> "None"]

top == frames[Len(frames)]

\* A block that keeps the diagnostics of its first failing statement only,
\* which the code does not do.
record_first_errors(fs, err) ==
    IF fs[Len(fs)].errors = <<>> THEN [fs EXCEPT ![Len(fs)].errors = err] ELSE fs

\* emit_block: an Err of emit_statement is appended to the block's errors.
record_errors(fs, err) ==
    [fs EXCEPT ![Len(fs)].errors = @ \o err]

\* emit_block returned Err to the emit_statement that called it, whose `?`
\* returns it to the enclosing block's loop.
propagate_errors(fs) ==
    record_errors(SubSeq(fs, 1, Len(fs) - 1), fs[Len(fs)].errors)

set_instruction(c, idx, instruction) ==
    [c EXCEPT !.instructions[idx + 1] = instruction]

RECURSIVE set_instructions(_, _, _)
set_instructions(c, idxs, instruction) ==
    IF idxs = <<>> THEN c
    ELSE set_instructions(set_instruction(c, Head(idxs), instruction),
                          Tail(idxs), instruction)

InBody == phase = "body"
CanStart == InBody /\ stmts < MaxStmts
CanNest == CanStart /\ Len(frames) <= MaxNest

\* The frame of the innermost while being lowered also keeps, for each
\* continue and break lowered in it, where its code starts and the tracked
\* stack sizes before and after it.
note_control(fs, statement, pre, r) ==
    IF /\ statement.k \in {"Continue", "Break"}
       /\ r.err = <<>>
       /\ \E i \in 1..Len(fs) : fs[i].kind = "While"
    THEN [fs EXCEPT ![CHOOSE i \in 1..Len(fs) :
                        /\ fs[i].kind = "While"
                        /\ \A j \in (i + 1)..Len(fs) : fs[j].kind # "While"].controls =
                 Append(@, [is_continue |-> statement.k = "Continue",
                            start |-> Len(pre.instructions),
                            stack_before |-> pre.stack_size,
                            stack_after |-> r.ctx.stack_size])]
    ELSE fs

\* Statement::Assignment, Return, ReturnValue, Continue, Break and Call.
LowerStatement(statement) ==
    /\ InBody
    /\ \E r \in {emit_statement(statement, ctx)} :
          /\ ctx' = r.ctx
          /\ frames' = note_control(record_errors(frames, r.err), statement, ctx, r)
          /\ last' = [k |-> statement.k, stmt |-> statement, pre |-> ctx, err |-> r.err]
    /\ stmts' = stmts + 1
    /\ UNCHANGED <<text_vars, tokens, module, functions_by_name, functions_by_idx, compiled_funs,
                   errors, fn_idx, phase, program>>

\* One if segment up to its block: the condition, JumpIfZero, open_scope.
\* `frame` is the If frame to push when the condition lowers.
BeginSegment(c, condition, frame, outer) ==
    \E r \in {emit_expression(condition, c)} :
       IF r.err # <<>>
       THEN /\ ctx' = r.ctx
            /\ frames' = record_errors(outer, r.err)
            /\ last' = [k |-> "If", stmt |-> [k |-> "If"], pre |-> frame.pre, err |-> r.err]
       ELSE /\ ctx' = open_scope(emit(r.ctx, [op |-> "JumpIfZero", arg |-> -1]), Other)
            /\ frames' = Append(outer,
                   [frame EXCEPT !.jump_inst_idx = Len(r.ctx.instructions)])
            /\ last' = NoStatement

\* Statement::If up to the block of its first segment.
LowerIfBegin(condition) ==
    /\ InBody
    /\ BeginSegment(ctx, condition,
                    [kind |-> "If", pre |-> ctx, jump_inst_idx |-> 0,
                     skip_else_instruction_idxs |-> <<>>, segments |-> <<>>,
                     errors |-> <<>>],
                    frames)
    /\ stmts' = stmts + 1
    /\ UNCHANGED <<text_vars, tokens, module, functions_by_name, functions_by_idx, compiled_funs,
                   errors, fn_idx, phase, program>>

\* Statement::If from the return of a segment's emit_block to the next block:
\* `more` tells what follows the segment: "elseif", "else" or "none".  The
\* frame also keeps, for each segment lowered, where its JumpIfZero is and how
\* many instructions there were after its block and after the segment.
LowerIfSegmentEnd(more, condition) ==
    /\ InBody
    /\ top.kind = "If"
    /\ IF top.errors # <<>>
       THEN /\ ctx' = ctx
            /\ frames' = propagate_errors(frames)
            /\ last' = [k |-> "If", stmt |-> [k |-> "If"], pre |-> top.pre, err |-> top.errors]
            /\ stmts' = stmts
       ELSE LET outer == SubSeq(frames, 1, Len(frames) - 1)
                c1 == end_scope(ctx)
                is_last == more # "elseif"
                has_else == more = "else"
                skips == IF ~is_last \/ has_else
                         THEN Append(top.skip_else_instruction_idxs, Len(c1.instructions))
                         ELSE top.skip_else_instruction_idxs
                c2 == IF ~is_last \/ has_else
                      THEN emit(c1, [op |-> "Jump", arg |-> -1])
                      ELSE c1
                c3 == set_instruction(c2, top.jump_inst_idx,
                          [op |-> "JumpIfZero", arg |-> Len(c2.instructions) + 1])
                frame == [top EXCEPT !.skip_else_instruction_idxs = skips,
                                     !.segments = Append(@,
                                         [jump_inst_idx |-> top.jump_inst_idx,
                                          body_end |-> Len(c1.instructions),
                                          segment_end |-> Len(c2.instructions)])]
            IN CASE more = "elseif" ->
                      /\ BeginSegment(c3, condition, frame, outer)
                      /\ stmts' = stmts + 1
                 [] more = "else" ->
                      /\ ctx' = open_scope(c3, Other)
                      /\ frames' = Append(outer, [frame EXCEPT !.kind = "Else"])
                      /\ last' = NoStatement
                      /\ stmts' = stmts
                 [] more = "none" ->
                      /\ ctx' = c3
                      /\ frames' = outer
                      /\ last' = [k |-> "If", stmt |-> [k |-> "If"], pre |-> top.pre,
                                  err |-> <<>>, segments |-> frame.segments,
                                  has_else |-> FALSE]
                      /\ stmts' = stmts
    /\ UNCHANGED <<text_vars, tokens, module, functions_by_name, functions_by_idx, compiled_funs,
                   errors, fn_idx, phase, program>>

\* Statement::If from the return of the else block's emit_block.
LowerIfElseEnd ==
    /\ InBody
    /\ top.kind = "Else"
    /\ IF top.errors # <<>>
       THEN /\ ctx' = ctx
            /\ frames' = propagate_errors(frames)
            /\ last' = [k |-> "If", stmt |-> [k |-> "If"], pre |-> top.pre, err |-> top.errors]
       ELSE LET c1 == end_scope(ctx)
            IN /\ ctx' = set_instructions(c1, top.skip_else_instruction_idxs,
                             [op |-> "Jump", arg |-> Len(c1.instructions) + 1])
               /\ frames' = SubSeq(frames, 1, Len(frames) - 1)
               /\ last' = [k |-> "If", stmt |-> [k |-> "If"], pre |-> top.pre, err |-> <<>>,
                           segments |-> top.segments, has_else |-> TRUE]
    /\ UNCHANGED <<text_vars, tokens, module, functions_by_name, functions_by_idx, compiled_funs,
                   errors, fn_idx, phase, program, stmts>>

\* Statement::While up to its block.
LowerWhileBegin ==
    /\ InBody
    /\ ctx' = open_scope(emit(ctx, [op |-> "Jump", arg |-> -1]), While(<<>>, <<>>))
    /\ frames' = Append(frames,
           [kind |-> "While", pre |-> ctx, uncond_jump_idx |-> Len(ctx.instructions),
            controls |-> <<>>, errors |-> <<>>])
    /\ last' = NoStatement
    /\ stmts' = stmts + 1
    /\ UNCHANGED <<text_vars, tokens, module, functions_by_name, functions_by_idx, compiled_funs,
                   errors, fn_idx, phase, program>>

\* Statement::While from the return of its block's emit_block.
LowerWhileEnd(condition) ==
    /\ InBody
    /\ top.kind = "While"
    /\ IF top.errors # <<>>
       THEN /\ ctx' = ctx
            /\ frames' = propagate_errors(frames)
            /\ last' = [k |-> "While", stmt |-> [k |-> "While"], pre |-> top.pre,
                        err |-> top.errors]
       ELSE LET outer == SubSeq(frames, 1, Len(frames) - 1)
                scope_state == ctx.scopes[Len(ctx.scopes)].scope_type
                c1 == end_scope(ctx)
                continue_instruction == [op |-> "Jump", arg |-> Len(c1.instructions) + 1]
                c2 == set_instruction(c1, top.uncond_jump_idx, continue_instruction)
                c3 == set_instructions(c2, scope_state.continue_inst_addresses,
                                       continue_instruction)
                r == emit_expression(condition, c3)
                c4 == emit(r.ctx, [op |-> "JumpIfNonZero", arg |-> top.uncond_jump_idx + 2])
                break_instruction == [op |-> "Jump", arg |-> Len(c4.instructions) + 1]
                c5 == set_instructions(c4, scope_state.break_inst_addresses,
                                       break_instruction)
            IN IF r.err # <<>>
               THEN /\ ctx' = r.ctx
                    /\ frames' = record_errors(outer, r.err)
                    /\ last' = [k |-> "While", stmt |-> [k |-> "While"], pre |-> top.pre,
                                err |-> r.err]
               ELSE /\ ctx' = c5
                    /\ frames' = outer
                    /\ last' = [k |-> "While", stmt |-> [k |-> "While"], pre |-> top.pre,
                                err |-> <<>>, uncond_jump_idx |-> top.uncond_jump_idx,
                                body_end |-> Len(ctx.instructions),
                                condition_idx |-> Len(c1.instructions),
                                condition |-> condition, controls |-> top.controls]
    /\ UNCHANGED <<text_vars, tokens, module, functions_by_name, functions_by_idx, compiled_funs,
                   errors, fn_idx, phase, program, stmts>>

-----------------------------------------------------------------------------
(* compiler.rs: compile_function and compile_module *)

None == [some |-> FALSE]
Some(v) == [some |-> TRUE, v |-> v]

EmptyCtx ==
    [instructions |-> <<>>, stack_size |-> 0, scopes |-> <<>>,
     return_value_save_offset |-> None]

RECURSIVE argument_scope_vars(_, _, _, _)
argument_scope_vars(argument_names, idx, arguments_start, scope_vars) ==
    IF idx >= Len(argument_names) THEN scope_vars
    ELSE argument_scope_vars(argument_names, idx + 1, arguments_start,
             map_insert(scope_vars, argument_names[idx + 1], arguments_start + idx))

\* A frame whose arguments start right below the first local, with no slot
\* for the return address, which the code does not have.
function_ctx_without_return_address(function) ==
    LET arguments_start == 0 - Len(function.argument_names)
    IN [instructions |-> <<>>,
        stack_size |-> 0,
        scopes |-> <<Scope(argument_scope_vars(function.argument_names, 0,
                                               arguments_start, {}),
                           0, Other)>>,
        return_value_save_offset |->
            IF function.returns_value THEN Some(arguments_start - 1) ELSE None]

\* compile_function up to its call of emit_block: the context of a function.
function_ctx(function) ==
    LET arguments_start == -1 - Len(function.argument_names)
    IN [instructions |-> <<>>,
        stack_size |-> 0,
        scopes |-> <<Scope(argument_scope_vars(function.argument_names, 0,
                                               arguments_start, {}),
                           0, Other)>>,
        return_value_save_offset |->
            IF function.returns_value THEN Some(arguments_start - 1) ELSE None]

\* compile_function after emit_block returned Ok.
function_end(c) ==
    LET c1 == end_scope(c)
    IN IF c1.instructions # <<>>
          /\ c1.instructions[Len(c1.instructions)] = [op |-> "Return"]
       THEN c1
       ELSE emit(c1, [op |-> "Return"])

\* The first loop of compile_module: the table of the functions, or the
\* diagnostic of the first repeated name.
RECURSIVE register_functions(_, _, _)
register_functions(m, idx, by_name) ==
    IF idx >= Len(m) THEN [ok |-> TRUE, v |-> by_name]
    ELSE LET function == m[idx + 1]
         IN IF fmap_contains(by_name, function.name)
            THEN Err(function.name_ref,
                     "A function with this name already exists - overloading is not supported")
            ELSE register_functions(m, idx + 1,
                     fmap_insert(by_name, function.name,
                         FunctionInfo(Len(function.argument_names),
                                      function.returns_value, idx, -1)))

CompileModuleBegin ==
    /\ phase = "start"
    /\ LET r == register_functions(module, 0, {})
       IN IF r.ok
          THEN /\ functions_by_name' = r.v
               /\ errors' = errors
               /\ phase' = "next"
          ELSE /\ functions_by_name' = functions_by_name
               /\ errors' = r.err
               /\ phase' = "failed"
    /\ UNCHANGED <<text_vars, tokens, module, functions_by_idx, compiled_funs, fn_idx, ctx, frames,
                   program, stmts, last>>

\* The second loop of compile_module takes the next function.
CompileFunctionBegin ==
    /\ phase = "next"
    /\ fn_idx < Len(module)
    /\ LET function == module[fn_idx + 1]
       IN /\ functions_by_idx' =
                 Append(functions_by_idx, fmap_get(functions_by_name, function.name))
          /\ ctx' = function_ctx(function)
    /\ frames' = <<[kind |-> "Function", errors |-> <<>>]>>
    /\ fn_idx' = fn_idx + 1
    /\ phase' = "body"
    /\ last' = NoStatement
    /\ UNCHANGED <<text_vars, tokens, module, functions_by_name, compiled_funs, errors,
                   program, stmts>>

\* emit_block of the function's block returns; compile_function ends and the
\* loop of compile_module keeps its code or its errors.
CompileFunctionEnd ==
    /\ phase = "body"
    /\ Len(frames) = 1
    /\ IF top.errors # <<>>
       THEN /\ errors' = errors \o top.errors
            /\ compiled_funs' = compiled_funs
            /\ ctx' = ctx
       ELSE /\ errors' = errors
            /\ ctx' = function_end(ctx)
            /\ compiled_funs' = Append(compiled_funs, ctx'.instructions)
    /\ frames' = <<>>
    /\ phase' = "next"
    /\ last' = NoStatement
    /\ UNCHANGED <<text_vars, tokens, module, functions_by_name, functions_by_idx, fn_idx,
                   program, stmts>>

ENTRY_POINT == <<"m", "a", "i", "n">>

NoPosition == "None"

offset_instruction(instruction, offset) ==
    IF instruction.op \in {"Jump", "JumpIfZero", "JumpIfNonZero"}
    THEN [instruction EXCEPT !.arg = @ + offset]
    ELSE instruction

RECURSIVE offset_instructions(_, _, _)
offset_instructions(prog, code, offset) ==
    IF code = <<>> THEN prog
    ELSE offset_instructions(Append(prog, offset_instruction(Head(code), offset)),
                             Tail(code), offset)

\* The loop that writes the functions into the program, recording their starts.
RECURSIVE write_functions(_, _, _, _, _)
write_functions(prog, by_idx, funs, idx, count) ==
    IF idx >= count THEN [program |-> prog, functions_by_idx |-> by_idx]
    ELSE LET offset == Len(prog)
         IN write_functions(offset_instructions(prog, funs[idx + 1], offset),
                            [by_idx EXCEPT ![idx + 1].start_offset = offset],
                            funs, idx + 1, count)

\* A rewrite of the call sites to the 0-based start offsets, which the code
\* does not do.
overwrite_jsr_zero_based(prog, by_idx) ==
    [i \in 1..Len(prog) |->
        IF prog[i].op = "JumpSubRoutine"
        THEN [op |-> "JumpSubRoutine", arg |-> by_idx[prog[i].arg + 1].start_offset]
        ELSE prog[i]]

overwrite_jsr(prog, by_idx) ==
    [i \in 1..Len(prog) |->
        IF prog[i].op = "JumpSubRoutine"
        THEN [op |-> "JumpSubRoutine", arg |-> by_idx[prog[i].arg + 1].start_offset + 1]
        ELSE prog[i]]

\* An entry point of any signature, which the code does not accept.
main_idx_of_any_signature(by_name) ==
    IF ~fmap_contains(by_name, ENTRY_POINT)
    THEN [ok |-> FALSE, err |-> <<FileTaggedError(NoPosition, "No entry point found")>>]
    ELSE [ok |-> TRUE, v |-> fmap_get(by_name, ENTRY_POINT).id]

\* The match of compile_module on the entry point: its index, or the
\* diagnostic without a location.
main_idx(by_name) ==
    IF ~fmap_contains(by_name, ENTRY_POINT)
    THEN [ok |-> FALSE, err |-> <<FileTaggedError(NoPosition, "No entry point found")>>]
    ELSE LET main == fmap_get(by_name, ENTRY_POINT)
         IN IF main.returns_value
            THEN [ok |-> FALSE,
                  err |-> <<FileTaggedError(NoPosition, "Entry point cannot return a value")>>]
            ELSE IF main.arg_count # 0
            THEN [ok |-> FALSE,
                  err |-> <<FileTaggedError(NoPosition, "Entry point must have no arguments")>>]
            ELSE [ok |-> TRUE, v |-> main.id]

\* compile_module after its loop over the functions.
Link ==
    /\ phase = "next"
    /\ fn_idx = Len(module)
    /\ IF errors # <<>>
       THEN /\ phase' = "failed"
            /\ UNCHANGED <<errors, program, functions_by_idx>>
       ELSE \E entry \in {main_idx(functions_by_name)} :
            IF ~entry.ok
            THEN /\ phase' = "failed"
                 /\ errors' = entry.err
                 /\ UNCHANGED <<program, functions_by_idx>>
            ELSE LET prologue == <<[op |-> "JumpSubRoutine", arg |-> entry.v],
                                   [op |-> "Jump", arg |-> -1]>>
                     w == write_functions(prologue, functions_by_idx, compiled_funs,
                                          0, Cardinality(functions_by_name))
                 IN /\ program' = overwrite_jsr(w.program, w.functions_by_idx)
                    /\ functions_by_idx' = w.functions_by_idx
                    /\ phase' = "linked"
                    /\ errors' = errors
    /\ UNCHANGED <<text_vars, tokens, module, functions_by_name, compiled_funs, fn_idx, ctx, frames,
                   stmts, last>>

-----------------------------------------------------------------------------
(* assembly.rs: instructions as text *)

ArgumentOps ==
    {"Jump", "JumpIfNonZero", "JumpIfZero", "Save", "Load", "Constant", "JumpSubRoutine"}

NO_ARG_INSTRUCTIONS ==
    {[key |-> <<"A", "D", "D">>, value |-> [op |-> "Add"]],
     [key |-> <<"S", "U", "B">>, value |-> [op |-> "Subtract"]],
     [key |-> <<"M", "U", "L">>, value |-> [op |-> "Multiply"]],
     [key |-> <<"D", "I", "V">>, value |-> [op |-> "Divide"]],
     [key |-> <<"R", "E", "M">>, value |-> [op |-> "Remainder"]],
     [key |-> <<"S", "H", "L">>, value |-> [op |-> "ShiftLeft"]],
     [key |-> <<"S", "H", "R">>, value |-> [op |-> "ShiftRight"]],
     [key |-> <<"A", "N", "D">>, value |-> [op |-> "And"]],
     [key |-> <<"P", "O", "W">>, value |-> [op |-> "Power"]],
     [key |-> <<"O", "R">>, value |-> [op |-> "Or"]],
     [key |-> <<"X", "O", "R">>, value |-> [op |-> "Xor"]],
     [key |-> <<"N", "O", "T">>, value |-> [op |-> "Not"]],
     [key |-> <<"E", "Q">>, value |-> [op |-> "Equal"]],
     [key |-> <<"N", "E">>, value |-> [op |-> "NotEqual"]],
     [key |-> <<"G", "T">>, value |-> [op |-> "GreaterThan"]],
     [key |-> <<"L", "T">>, value |-> [op |-> "LessThan"]],
     [key |-> <<"G", "T", "E">>, value |-> [op |-> "GreaterThanOrEqual"]],
     [key |-> <<"L", "T", "E">>, value |-> [op |-> "LessThanOrEqual"]],
     [key |-> <<"P", "O", "P">>, value |-> [op |-> "Pop"]],
     [key |-> <<"R", "E", "T">>, value |-> [op |-> "Return"]]}

\* The labels that Display writes before the argument of an instruction.
DisplayLabels ==
    {[op |-> "Jump", label |-> <<"J", "U", "M", "P">>],
     [op |-> "JumpIfNonZero", label |-> <<"J", "M", "P", "I", "F">>],
     [op |-> "JumpIfZero", label |-> <<"J", "M", "P", "N", "I", "F">>],
     [op |-> "Save", label |-> <<"S", "A", "V", "E">>],
     [op |-> "Load", label |-> <<"L", "O", "A", "D">>],
     [op |-> "Constant", label |-> <<"C", "N", "S", "T">>],
     [op |-> "JumpSubRoutine", label |-> <<"J", "S", "R">>]}

\* The labels that TryFrom compares with, when the text has a space.
TryFromLabels ==
    {[key |-> <<"J", "U", "M", "P">>, op |-> "Jump"],
     [key |-> <<"J", "M", "P", "I", "F">>, op |-> "JumpIfNonZero"],
     [key |-> <<"J", "M", "P", "N", "I", "F">>, op |-> "JumpIfZero"],
     [key |-> <<"S", "A", "V", "E">>, op |-> "Save"],
     [key |-> <<"L", "O", "A", "D">>, op |-> "Load"],
     [key |-> <<"C", "N", "S", "T">>, op |-> "Constant"]}

digit_char(d) ==
    CASE d = 0 -> "0" [] d = 1 -> "1" [] d = 2 -> "2" [] d = 3 -> "3" [] d = 4 -> "4"
      [] d = 5 -> "5" [] d = 6 -> "6" [] d = 7 -> "7" [] d = 8 -> "8" [] d = 9 -> "9"

\* The decimal digits of n > 0, and of n < 0 without its sign; none for 0.
RECURSIVE decimal_digits(_)
decimal_digits(n) ==
    IF n = 0 THEN <<>>
    ELSE IF n > 0 THEN Append(decimal_digits(n \div 10), digit_char(n % 10))
    ELSE Append(decimal_digits((n + ((10 - (n % 10)) % 10)) \div 10),
                digit_char((10 - (n % 10)) % 10))

\* Display of an i32.
i32_to_string(n) ==
    IF n = 0 THEN <<"0">>
    ELSE IF n < 0 THEN <<"-">> \o decimal_digits(n)
    ELSE decimal_digits(n)

\* impl Display for Instruction.
Display(instruction) ==
    IF instruction.op \in ArgumentOps
    THEN (CHOOSE l \in DisplayLabels : l.op = instruction.op).label \o <<" ">>
         \o i32_to_string(instruction.arg)
    ELSE (CHOOSE e \in NO_ARG_INSTRUCTIONS : e.value = instruction).key

\* str::find(' '): the 0-based index of the first space, -1 for None.
RECURSIVE find_space(_, _)
find_space(value, idx) ==
    IF idx >= Len(value) THEN -1
    ELSE IF value[idx + 1] = " " THEN idx
    ELSE find_space(value, idx + 1)

\* impl TryFrom<&str> for Instruction.
TryFrom(value) ==
    With(find_space(value, 0),
         LAMBDA index :
            IF index >= 0
            THEN With(parse_i32(SubSeq(value, index + 2, Len(value))),
                      LAMBDA parsed_arg :
                          IF ~parsed_arg.ok THEN [ok |-> FALSE, err |-> "ParseIntError"]
                          ELSE IF \E l \in TryFromLabels : l.key = SubSeq(value, 1, index)
                          THEN Ok([op |-> (CHOOSE l \in TryFromLabels :
                                             l.key = SubSeq(value, 1, index)).op,
                                   arg |-> parsed_arg.v])
                          ELSE [ok |-> FALSE, err |-> "Unknown instruction"])
            ELSE IF \E e \in NO_ARG_INSTRUCTIONS : e.key = value
            THEN Ok((CHOOSE e \in NO_ARG_INSTRUCTIONS : e.key = value).value)
            ELSE [ok |-> FALSE, err |-> "Unknown instruction"])

-----------------------------------------------------------------------------
(* lexer.rs: tokens.  The FileRef of a token is its 0-based index. *)

Tok(t) == [t |-> t]
Identifier(name) == [t |-> "Identifier", v |-> name]
Number(n) == [t |-> "Number", v |-> n]

-----------------------------------------------------------------------------
(* lexer.rs: tokenize.  A text is the sequence of its characters; an index  *)
(* into it is 0-based, as chars().enumerate() counts.                       *)

KEYWORDS ==
    {[key |-> <<"i", "f">>, value |-> Tok("If")],
     [key |-> <<"w", "h", "i", "l", "e">>, value |-> Tok("While")],
     [key |-> <<"e", "l", "s", "e">>, value |-> Tok("Else")],
     [key |-> <<"i", "n", "t">>, value |-> Tok("Int")],
     [key |-> <<"v", "o", "i", "d">>, value |-> Tok("Void")],
     [key |-> <<"c", "o", "n", "t", "i", "n", "u", "e">>, value |-> Tok("Continue")],
     [key |-> <<"b", "r", "e", "a", "k">>, value |-> Tok("Break")],
     [key |-> <<"r", "e", "t", "u", "r", "n">>, value |-> Tok("Return")]}

NUMBER_BASE == 10

Letters ==
    {"a", "b", "c", "d", "e", "f", "g", "h", "i", "j", "k", "l", "m", "n", "o", "p", "q",
     "r", "s", "t", "u", "v", "w", "x", "y", "z"}

is_whitespace(c) == c \in {" ", "\n", "\t", "\r"}
is_alphanumeric(c) == c \in Letters \cup Digits
is_valid_for_identifier(c) == is_alphanumeric(c) \/ c = "_"

\* The match of tokenize on a character that starts neither a number nor an
\* identifier.
Symbols ==
    {[key |-> "(", value |-> Tok("OpenParen")],
     [key |-> ")", value |-> Tok("CloseParen")],
     [key |-> "{", value |-> Tok("OpenBrace")],
     [key |-> "}", value |-> Tok("CloseBrace")],
     [key |-> "+", value |-> Tok("Plus")],
     [key |-> "-", value |-> Tok("Minus")],
     [key |-> "*", value |-> Tok("Star")],
     [key |-> "/", value |-> Tok("ForwardSlash")],
     [key |-> "^", value |-> Tok("Carat")],
     [key |-> "|", value |-> Tok("Bar")],
     [key |-> "%", value |-> Tok("Percent")],
     [key |-> "&", value |-> Tok("Ampersand")],
     [key |-> "<", value |-> Tok("LeftArrow")],
     [key |-> ",", value |-> Tok("Comma")],
     [key |-> ">", value |-> Tok("RightArrow")],
     [key |-> "=", value |-> Tok("Equals")],
     [key |-> "~", value |-> Tok("Tilda")],
     [key |-> "!", value |-> Tok("Bang")],
     [key |-> ";", value |-> Tok("Semicolon")]}

\* current * 10 + digit in i32 overflows.  current is not negative when the
\* build checks overflow.
mul_add_overflows(current, digit) == current > (I32_MAX - digit) \div NUMBER_BASE

\* current * 10 + digit in wrapping i32 arithmetic, on the two 16-bit halves
\* of current.
wrapping_mul_add(current, digit) ==
    LET low == (current % 65536) * NUMBER_BASE + digit
        high == (((current \div 65536) + 65536) * NUMBER_BASE + (low \div 65536)) % 65536
    IN IF high >= 32768
       THEN (high - 65536) * 65536 + (low % 65536)
       ELSE high * 65536 + (low % 65536)

\* parse_number from the character at index next, the digits before it having
\* the value current.  An overflow panics in a build that checks overflow and
\* wraps in a build that does not.
RECURSIVE parse_number(_, _, _, _)
parse_number(text, next, current, overflow_checks) ==
    IF next >= Len(text) \/ text[next + 1] \notin Digits
    THEN [panic |-> FALSE, v |-> current, next |-> next]
    ELSE IF overflow_checks /\ mul_add_overflows(current, to_digit(text[next + 1]))
    THEN [panic |-> TRUE, v |-> current, next |-> next]
    ELSE parse_number(text, next + 1, wrapping_mul_add(current, to_digit(text[next + 1])),
                      overflow_checks)

\* parse_identifier from the character at index next: the index of the first
\* character that is not valid for an identifier.
RECURSIVE parse_identifier(_, _)
parse_identifier(text, next) ==
    IF next >= Len(text) \/ ~is_valid_for_identifier(text[next + 1])
    THEN next
    ELSE parse_identifier(text, next + 1)

keyword_or_identifier(ident) ==
    IF \E k \in KEYWORDS : k.key = ident
    THEN (CHOOSE k \in KEYWORDS : k.key = ident).value
    ELSE Identifier(ident)

\* What tokenize reads from the character c at index idx: a token and the
\* index the iterator is left at, or no token for an invalid character.
read_token(text, idx, c, overflow_checks) ==
    IF c \in Digits
    THEN With(parse_number(text, idx + 1, to_digit(c), overflow_checks),
              LAMBDA n : [kind |-> IF n.panic THEN "Panic" ELSE "Token",
                          token |-> Number(n.v), next |-> n.next])
    ELSE IF is_valid_for_identifier(c)
    THEN With(parse_identifier(text, idx + 1),
              LAMBDA next : [kind |-> "Token",
                             token |-> keyword_or_identifier(SubSeq(text, idx + 1, next)),
                             next |-> next])
    ELSE IF \E sym \in Symbols : sym.key = c
    THEN [kind |-> "Token", token |-> (CHOOSE sym \in Symbols : sym.key = c).value,
          next |-> idx + 1]
    ELSE [kind |-> "Invalid", next |-> idx + 1]

FileRef(line_index, begin_char_index, length) ==
    [line_index |-> line_index, begin_char_index |-> begin_char_index, length |-> length]

\* The FileRef of a token that starts at idx and leaves the iterator at next:
\* its final character is the index of the next character, or idx + 1 when
\* there is no next character.
token_ref(text, idx, next, line_index, begin_line_char_index) ==
    FileRef(line_index, idx - begin_line_char_index,
            (IF next < Len(text) THEN next ELSE idx + 1) - idx)

\* The loop of tokenize from the character at index idx.
RECURSIVE tokenize_from(_, _, _, _, _, _, _)
tokenize_from(text, overflow_checks, idx, line_index, begin_line_char_index, result, errs) ==
    IF idx >= Len(text)
    THEN IF errs # <<>>
         THEN [kind |-> "Err", errors |-> errs]
         ELSE [kind |-> "Ok",
               tokens |-> Append(result, [token |-> Tok("EndOfFile"),
                                          ref |-> FileRef(line_index + 1, 0, 5)])]
    ELSE IF text[idx + 1] = "\n"
    THEN tokenize_from(text, overflow_checks, idx + 1, line_index + 1, idx + 1, result, errs)
    ELSE IF is_whitespace(text[idx + 1])
    THEN tokenize_from(text, overflow_checks, idx + 1, line_index, begin_line_char_index,
                       result, errs)
    ELSE With(read_token(text, idx, text[idx + 1], overflow_checks),
              LAMBDA read :
                  IF read.kind = "Panic" THEN [kind |-> "Panic"]
                  ELSE IF read.kind = "Invalid"
                  THEN tokenize_from(text, overflow_checks, read.next, line_index,
                           begin_line_char_index, result,
                           Append(errs, FileTaggedError(
                               FileRef(line_index, idx - begin_line_char_index, 1),
                               "Invalid character")))
                  ELSE tokenize_from(text, overflow_checks, read.next, line_index,
                           begin_line_char_index,
                           Append(result,
                               [token |-> read.token,
                                ref |-> token_ref(text, idx, read.next, line_index,
                                                  begin_line_char_index)]),
                           errs))

tokenize(text, overflow_checks) == tokenize_from(text, overflow_checks, 0, 0, 0, <<>>, <<>>)

-----------------------------------------------------------------------------
(* parser.rs: TokenIterator *)

\* Besides the fields of the code the iterator keeps three marks of what has
\* happened to it: low, the least position it was ever at; stalled, whether
\* an iteration of a loop of the parser left it no further than it had found
\* it; asserted, whether the assertion of parse_expression failed.
TokenIterator(token_list) ==
    [tokens |-> token_list, position |-> 0, low |-> 0, stalled |-> FALSE,
     asserted |-> FALSE]

get_token_or_eof(iter, position) ==
    IF position < Len(iter.tokens)
    THEN [token |-> iter.tokens[position + 1], ref |-> position]
    ELSE [token |-> iter.tokens[Len(iter.tokens)], ref |-> Len(iter.tokens) - 1]

\* consume advances the iterator; the token it returns is prev_token of the result.
consume(iter) == [iter EXCEPT !.position = @ + 1]
prev_token(iter) == get_token_or_eof(iter, iter.position - 1).token
move_back(iter) ==
    [iter EXCEPT !.position = @ - 1,
                 !.low = IF iter.position - 1 < @ THEN iter.position - 1 ELSE @]
prev_token_ref(iter) == get_token_or_eof(iter, iter.position - 1).ref
next_token_index(iter) == iter.position
prev_token_index(iter) == iter.position - 1
get_ref_range(iter, from, to) == [from |-> from, to |-> to]

\* What get_ref_range computes from the FileRefs of the tokens at from and at
\* to.  length is the difference of two usize: below 0 it panics in a build
\* that checks overflow and wraps in a build that does not.
ref_range(start_token, end_token) ==
    LET end_char_index ==
            IF start_token.line_index # end_token.line_index
            THEN start_token.begin_char_index + 1
            ELSE end_token.begin_char_index + end_token.length
    IN FileRef(start_token.line_index, start_token.begin_char_index,
               end_char_index - start_token.begin_char_index)

\* CompileResult<T> of a parse function, with the iterator as the call left it.
ParseOk(iter, v) == [iter |-> iter, ok |-> TRUE, v |-> v]
ParseErr(iter, position, msg) ==
    [iter |-> iter, ok |-> FALSE, err |-> <<FileTaggedError(position, msg)>>]
prev_token_error(iter, msg) == ParseErr(iter, prev_token_ref(iter), msg)

\* The iterator at the start of the next iteration of a loop that found it as
\* before and leaves it as after.  The loops of the parser decide what to do
\* from the iterator alone, so an iteration that does not advance it is
\* repeated for ever: the loops stop unfolding at a stalled iterator.
next_iteration(before, after) ==
    [after EXCEPT !.stalled = @ \/ after.position <= before.position]

\* The `?` of the code on the result of a parse function.
ParseTry(r, F(_)) == IF ~r.ok THEN r ELSE F(r)

-----------------------------------------------------------------------------
(* parser.rs: expressions *)

\* A ladder with the additive operators above the multiplicative ones, which
\* the code does not have.
PRECEDENCE_additive_first ==
    <<{"Power", "ShiftLeft", "ShiftRight"},
      {"Add", "Subtract"},
      {"Multiply", "Divide", "Remainder"},
      {"NotEquals", "Equals", "GreaterThan", "GreaterThanOrEqual", "LessThan",
       "LessThanOrEqual"},
      {"And", "Or", "Xor"}>>

\* A ladder without the level of the comparisons, which the code has.
PRECEDENCE_without_comparisons ==
    <<{"Power", "ShiftLeft", "ShiftRight"},
      {"Multiply", "Divide", "Remainder"},
      {"Add", "Subtract"},
      {"And", "Or", "Xor"}>>

PRECEDENCE ==
    <<{"Power", "ShiftLeft", "ShiftRight"},
      {"Multiply", "Divide", "Remainder"},
      {"Add", "Subtract"},
      {"NotEquals", "Equals", "GreaterThan", "GreaterThanOrEqual", "LessThan",
       "LessThanOrEqual"},
      {"And", "Or", "Xor"}>>

\* Option<BinaryOperator>, with the iterator as the call left it.
Operator(iter, operator) == [iter |-> iter, some |-> TRUE, v |-> operator]
NoOperator(iter) == [iter |-> iter, some |-> FALSE]

parse_binary_operator(iter) ==
    LET it1 == consume(iter)
        t1 == prev_token(it1).t
        it2 == consume(it1)
        t2 == prev_token(it2).t
    IN CASE t1 = "Plus" -> Operator(it1, "Add")
         [] t1 = "Minus" -> Operator(it1, "Subtract")
         [] t1 = "Star" -> Operator(it1, "Multiply")
         [] t1 = "ForwardSlash" -> Operator(it1, "Divide")
         [] t1 = "Ampersand" -> Operator(it1, "And")
         [] t1 = "Percent" -> Operator(it1, "Remainder")
         [] t1 = "Bar" -> Operator(it1, "Or")
         [] t1 = "Carat" -> Operator(it1, "Power")
         [] t1 = "Equals" ->
               IF t2 = "Equals" THEN Operator(it2, "Equals")
               ELSE NoOperator(move_back(move_back(it2)))
         [] t1 = "LeftArrow" ->
               IF t2 = "Equals" THEN Operator(it2, "LessThanOrEqual")
               ELSE Operator(move_back(it2), "LessThan")
         [] t1 = "RightArrow" ->
               IF t2 = "Equals" THEN Operator(it2, "GreaterThanOrEqual")
               ELSE Operator(move_back(it2), "GreaterThan")
         [] t1 = "Bang" ->
               IF t2 = "Equals" THEN Operator(it2, "NotEquals")
               ELSE NoOperator(move_back(move_back(it2)))
         [] OTHER -> NoOperator(move_back(it1))

\* One pass of the reduction loop of parse_expression over one operator set;
\* next_expr is expressions[i + 1] and its operator is operators[i].
RECURSIVE reduce_operators(_, _, _, _, _, _)
reduce_operators(expressions, operators, operator_set, i, reduced_expressions, reduced_operators) ==
    IF i + 1 > Len(expressions)
    THEN [expressions |-> reduced_expressions, operators |-> reduced_operators]
    ELSE LET next_expr == expressions[i + 1]
         IN IF i <= Len(operators)
            THEN IF operators[i] \in operator_set
                 THEN LET n == Len(reduced_expressions)
                          prev_expr == reduced_expressions[n]
                      IN reduce_operators(expressions, operators, operator_set, i + 1,
                            Append(SubSeq(reduced_expressions, 1, n - 1),
                                   Binary(prev_expr, next_expr, operators[i])),
                            reduced_operators)
                 ELSE reduce_operators(expressions, operators, operator_set, i + 1,
                            Append(reduced_expressions, next_expr),
                            Append(reduced_operators, operators[i]))
            ELSE reduce_operators(expressions, operators, operator_set, i + 1,
                            Append(reduced_expressions, next_expr), reduced_operators)

RECURSIVE reduce_precedence(_, _, _)
reduce_precedence(expressions, operators, level) ==
    IF level > Len(PRECEDENCE) THEN expressions
    ELSE With(reduce_operators(expressions, operators, PRECEDENCE[level], 1,
                               <<expressions[1]>>, <<>>),
              LAMBDA r : reduce_precedence(r.expressions, r.operators, level + 1))

RECURSIVE parse_unary_expression(_)
RECURSIVE parse_expression(_)
RECURSIVE parse_operands(_, _, _)
RECURSIVE parse_arguments(_, _)
RECURSIVE parse_call(_)

\* The `while let Ok(expr) = parse_expression(iter)` loop of parse_call: a
\* failed parse ends the loop with the iterator where the failure left it.
parse_arguments(iter, args) ==
    IF iter.stalled THEN [iter |-> iter, args |-> args]
    ELSE
    With(parse_expression(iter),
         LAMBDA r :
            IF ~r.ok THEN [iter |-> r.iter, args |-> args]
            ELSE With(consume(r.iter),
                      LAMBDA it1 :
                         IF prev_token(it1).t = "Comma"
                         THEN parse_arguments(next_iteration(iter, it1), Append(args, r.v))
                         ELSE [iter |-> it1, args |-> Append(args, r.v)]))

parse_call(iter) ==
    LET it1 == consume(iter)
    IN IF prev_token(it1).t # "Identifier"
       THEN prev_token_error(it1, "Expected identifier")
       ELSE
       LET function_name == prev_token(it1).v
           function_name_ref == prev_token_ref(it1)
           it2 == consume(it1)
       IN IF prev_token(it2).t # "OpenParen"
          THEN prev_token_error(it2, "Expected (")
          ELSE
          With(parse_arguments(it2, <<>>),
               LAMBDA a :
                  LET before_args_idx == next_token_index(it2)
                      it3 == move_back(a.iter)
                      after_args == prev_token_index(it3)
                      it4 == consume(it3)
                  IN IF prev_token(it4).t = "CloseParen"
                     THEN ParseOk(it4, Call(function_name, function_name_ref, a.args,
                                       get_ref_range(it4, before_args_idx, after_args)))
                     ELSE prev_token_error(it4, "Expected )"))

parse_unary_expression(iter) ==
    LET it1 == consume(iter)
        token == prev_token(it1)
    IN CASE token.t = "Minus" ->
               ParseTry(parse_unary_expression(it1),
                        LAMBDA r : ParseOk(r.iter, Unary(r.v, "Negate")))
         [] token.t = "Tilda" ->
               ParseTry(parse_unary_expression(it1),
                        LAMBDA r : ParseOk(r.iter, Unary(r.v, "Not")))
         [] token.t = "Identifier" ->
               LET it2 == consume(it1)
               IN IF prev_token(it2).t = "OpenParen"
                  THEN ParseTry(parse_call(move_back(move_back(it2))),
                                LAMBDA r : ParseOk(r.iter, CallExpr(r.v)))
                  ELSE LET it3 == move_back(it2)
                       IN ParseOk(it3, Variable(token.v, prev_token_ref(it3)))
         [] token.t = "Number" -> ParseOk(it1, Literal(token.v))
         [] token.t = "OpenParen" ->
               ParseTry(parse_expression(it1),
                        LAMBDA r :
                           LET it2 == consume(r.iter)
                           IN IF prev_token(it2).t = "CloseParen"
                              THEN ParseOk(it2, r.v)
                              ELSE prev_token_error(it2, "Expected )"))
         [] OTHER -> prev_token_error(it1, "Expected unary expression")

\* The first loop of parse_expression: operands and the operators between them.
parse_operands(iter, expressions, operators) ==
    IF iter.stalled THEN [iter |-> iter, ok |-> FALSE, err |-> <<>>]
    ELSE
    ParseTry(parse_unary_expression(iter),
             LAMBDA r :
                With(parse_binary_operator(r.iter),
                     LAMBDA o :
                        IF ~o.some
                        THEN ParseOk(o.iter, [expressions |-> Append(expressions, r.v),
                                              operators |-> operators])
                        ELSE parse_operands(next_iteration(iter, o.iter),
                                            Append(expressions, r.v),
                                            Append(operators, o.v))))

\* A failed assertion is a panic: the result is followed no further than to
\* the caller of parse_module, with the mark on the iterator.
parse_expression(iter) ==
    ParseTry(parse_operands(iter, <<>>, <<>>),
             LAMBDA r :
                With(reduce_precedence(r.v.expressions, r.v.operators, 1),
                     LAMBDA reduced :
                        IF Len(reduced) = 1
                        THEN ParseOk(r.iter, reduced[1])
                        ELSE [iter |-> [r.iter EXCEPT !.asserted = TRUE],
                              ok |-> FALSE, err |-> <<>>]))

-----------------------------------------------------------------------------
(* parser.rs: statements, blocks, functions, the module *)

IfSegment(condition, block) == [condition |-> condition, block |-> block]
IfStatement(segments, else) == [k |-> "If", segments |-> segments, else |-> else]
WhileStatement(condition, block) ==
    [k |-> "While", condition |-> condition, block |-> block]
FunctionOf(name, name_ref, argument_names, block, returns_value) ==
    [name |-> name, name_ref |-> name_ref, argument_names |-> argument_names,
     block |-> block, returns_value |-> returns_value]

\* A compound assignment with the variable as the right operand, which the
\* code does not build.
parse_modify_in_place_swapped(iter, ident, ident_ref, operator) ==
    LET it1 == consume(iter)
    IN IF prev_token(it1).t # "Equals"
       THEN prev_token_error(it1, "Expected =")
       ELSE ParseTry(parse_expression(it1),
                     LAMBDA r :
                        ParseOk(r.iter,
                            Assignment(ident, ident_ref,
                                Binary(r.v, Variable(ident, prev_token_ref(it1)),
                                       operator))))

parse_modify_in_place(iter, ident, ident_ref, operator) ==
    LET it1 == consume(iter)
    IN IF prev_token(it1).t # "Equals"
       THEN prev_token_error(it1, "Expected =")
       ELSE ParseTry(parse_expression(it1),
                     LAMBDA r :
                        ParseOk(r.iter,
                            Assignment(ident, ident_ref,
                                Binary(Variable(ident, prev_token_ref(it1)), r.v,
                                       operator))))

expect_semicolon_and_then(iter, value) ==
    LET it1 == consume(iter)
    IN IF prev_token(it1).t # "Semicolon"
       THEN prev_token_error(it1, "Expected ;")
       ELSE ParseOk(it1, value)

RECURSIVE parse_statement(_)
RECURSIVE parse_block(_)
RECURSIVE parse_block_statements(_, _, _)
RECURSIVE parse_if_statement(_)
RECURSIVE parse_if_segments(_, _)
RECURSIVE skip_statement(_, _)

\* The panic loop of parse_block: consume up to the statement's end.
skip_statement(iter, is_block_statement) ==
    LET it1 == consume(iter)
        token == prev_token(it1).t
    IN IF \/ token = "EndOfFile"
          \/ token = "CloseBrace" /\ is_block_statement
          \/ token = "Semicolon" /\ ~is_block_statement
          \/ iter.stalled
       THEN it1
       ELSE skip_statement(next_iteration(iter, it1), is_block_statement)

\* The statement loop of parse_block.  An Err result also shows the statements
\* vector as the loop left it, which the code drops.
parse_block_statements(iter, statements, block_errors) ==
    LET it1 == consume(iter)
        token == prev_token(it1).t
    IN IF token \in {"CloseBrace", "EndOfFile"} \/ iter.stalled
       THEN IF block_errors = <<>> /\ ~iter.stalled THEN ParseOk(it1, statements)
            ELSE [iter |-> it1, ok |-> FALSE, err |-> block_errors,
                  statements |-> statements]
       ELSE With(parse_statement(move_back(it1)),
                 LAMBDA r :
                    IF r.ok
                    THEN parse_block_statements(next_iteration(iter, r.iter),
                                                Append(statements, r.v), block_errors)
                    ELSE LET is_block_statement == token \in {"If", "While"}
                         IN parse_block_statements(
                                next_iteration(iter,
                                    skip_statement(r.iter, is_block_statement)),
                                statements, block_errors \o r.err))

parse_block(iter) ==
    LET it1 == consume(iter)
    IN IF prev_token(it1).t # "OpenBrace"
       THEN prev_token_error(it1, "Expected {")
       ELSE parse_block_statements(it1, <<>>, <<>>)

\* The loop of parse_if_statement after the first segment.
parse_if_segments(iter, segments) ==
    LET it1 == consume(iter)
    IN IF iter.stalled THEN [iter |-> iter, ok |-> FALSE, err |-> <<>>]
       ELSE IF prev_token(it1).t # "Else"
       THEN ParseOk(move_back(it1), IfStatement(segments, None))
       ELSE LET it2 == consume(it1)
            IN IF prev_token(it2).t = "If"
               THEN ParseTry(parse_expression(it2),
                        LAMBDA c :
                           ParseTry(parse_block(c.iter),
                              LAMBDA b :
                                 parse_if_segments(next_iteration(iter, b.iter),
                                     Append(segments, IfSegment(c.v, b.v)))))
               ELSE ParseTry(parse_block(move_back(it2)),
                        LAMBDA b : ParseOk(b.iter, IfStatement(segments, Some(b.v))))

parse_if_statement(iter) ==
    ParseTry(parse_expression(iter),
             LAMBDA c :
                ParseTry(parse_block(c.iter),
                         LAMBDA b : parse_if_segments(b.iter, <<IfSegment(c.v, b.v)>>)))

\* parse_statement after an identifier and the token that follows it.
parse_identifier_statement(iter, ident, ident_ref) ==
    LET it1 == consume(iter)
        token == prev_token(it1).t
        compound == [Plus |-> "Add", Minus |-> "Subtract", Star |-> "Multiply",
                     ForwardSlash |-> "Divide", Carat |-> "Power",
                     Ampersand |-> "And", Bar |-> "Or"]
    IN ParseTry(
          CASE token = "Equals" ->
                  ParseTry(parse_expression(it1),
                           LAMBDA r : ParseOk(r.iter, Assignment(ident, ident_ref, r.v)))
            [] token \in DOMAIN compound ->
                  parse_modify_in_place(it1, ident, ident_ref, compound[token])
            [] token = "OpenParen" ->
                  ParseTry(parse_call(move_back(move_back(it1))),
                           LAMBDA r : ParseOk(r.iter, CallStatement(r.v)))
            [] OTHER -> prev_token_error(it1, "Expected valid statement"),
          LAMBDA statement : expect_semicolon_and_then(statement.iter, statement.v))

parse_statement(iter) ==
    LET it1 == consume(iter)
        token == prev_token(it1)
    IN CASE token.t = "Identifier" ->
               parse_identifier_statement(it1, token.v, prev_token_ref(it1))
         [] token.t = "If" -> parse_if_statement(it1)
         [] token.t = "While" ->
               ParseTry(parse_expression(it1),
                  LAMBDA c :
                     ParseTry(parse_block(c.iter),
                        LAMBDA b : ParseOk(b.iter, WhileStatement(c.v, b.v))))
         [] token.t = "Continue" ->
               expect_semicolon_and_then(it1, Continue(prev_token_ref(it1)))
         [] token.t = "Break" ->
               expect_semicolon_and_then(it1, Break(prev_token_ref(it1)))
         [] token.t = "Return" ->
               LET it2 == consume(it1)
               IN IF prev_token(it2).t = "Semicolon"
                  THEN ParseOk(it2, Return(it2.position - 2))
                  ELSE LET it3 == move_back(it2)
                           idx_before_expr == next_token_index(it3)
                       IN ParseTry(parse_expression(it3),
                             LAMBDA r :
                                LET expr_ref == get_ref_range(r.iter, idx_before_expr,
                                                              prev_token_index(r.iter))
                                    it4 == consume(r.iter)
                                IN IF prev_token(it4).t # "Semicolon"
                                   THEN prev_token_error(it4, "Expected ;")
                                   ELSE ParseOk(it4, ReturnValue(r.v, expr_ref)))
         [] OTHER -> prev_token_error(it1, "Expected statement")

\* The parameter loop of parse_function.
RECURSIVE parse_parameters(_, _)
parse_parameters(iter, argument_names) ==
    LET it1 == consume(iter)
    IN IF prev_token(it1).t # "Identifier" \/ iter.stalled
       THEN [iter |-> it1, argument_names |-> argument_names]
       ELSE LET it2 == consume(it1)
                names == Append(argument_names, prev_token(it1).v)
            IN IF prev_token(it2).t = "Comma"
               THEN parse_parameters(next_iteration(iter, it2), names)
               ELSE [iter |-> it2, argument_names |-> names]

parse_function(iter) ==
    LET it1 == consume(iter)
        it2 == consume(it1)
        it3 == consume(it2)
    IN IF prev_token(it1).t \notin {"Void", "Int"}
       THEN prev_token_error(it1, "Expected function return type: int or void")
       ELSE IF prev_token(it2).t # "Identifier"
       THEN prev_token_error(it2, "Expected function name")
       ELSE IF prev_token(it3).t # "OpenParen"
       THEN prev_token_error(it3, "Expected (")
       ELSE
       With(parse_parameters(it3, <<>>),
            LAMBDA p :
               LET it4 == consume(move_back(p.iter))
               IN IF prev_token(it4).t # "CloseParen"
                  THEN prev_token_error(it4, "Expected ')'")
                  ELSE ParseTry(parse_block(it4),
                          LAMBDA b :
                             ParseOk(b.iter,
                                 FunctionOf(prev_token(it2).v, prev_token_ref(it2),
                                            p.argument_names, b.v,
                                            prev_token(it1).t = "Int"))))

\* A recovery that steps back to the token the diagnostic is about and looks
\* no further, which the code does not do.
skip_function_back(iter) == move_back(iter)

\* The recovery loop of parse_module: up to the next int, void or end of file.
RECURSIVE skip_function(_)
skip_function(iter) ==
    LET it1 == consume(iter)
    IN IF prev_token(it1).t \in {"Int", "Void", "EndOfFile"} \/ iter.stalled
       THEN move_back(it1)
       ELSE skip_function(next_iteration(iter, it1))

RECURSIVE parse_functions(_, _, _)
parse_functions(iter, functions, module_errors) ==
    LET it1 == consume(iter)
    IN IF prev_token(it1).t = "EndOfFile" \/ iter.stalled
       THEN IF module_errors = <<>> /\ ~iter.stalled THEN ParseOk(it1, functions)
            ELSE [iter |-> it1, ok |-> FALSE, err |-> module_errors]
       ELSE With(parse_function(move_back(it1)),
                 LAMBDA r :
                    IF r.ok
                    THEN parse_functions(next_iteration(iter, r.iter),
                                         Append(functions, r.v), module_errors)
                    ELSE parse_functions(next_iteration(iter, skip_function(r.iter)),
                                         functions, module_errors \o r.err))

parse_module(iter) == parse_functions(iter, <<>>, <<>>)

-----------------------------------------------------------------------------
(* The inputs: modules, names, expressions and calls *)

X == <<"x">>
A == <<"a">>
B == <<"b">>
F == <<"f">>
signal(suffix) == SIGNAL_PREFIX \o suffix

Lit1 == Literal(1)
VarX == Variable(X, "x_pos")
CallF(arguments) == Call(F, "f_ref", arguments, "f_args_ref")
CallMain == Call(ENTRY_POINT, "main_call_ref", <<>>, "main_args_ref")

MainFn == Function(ENTRY_POINT, "main_ref", <<>>, FALSE)
IntF == Function(F, "f_decl_ref", <<A, B>>, TRUE)

Modules == {<<MainFn>>, <<IntF, MainFn>>, <<MainFn, IntF>>}

AssignNames == {X}
Exprs == {Lit1, VarX, CallExpr(CallF(<<Lit1, VarX>>))}
Conditions == {Lit1, VarX}
Calls == {CallF(<<Lit1, VarX>>), CallMain}

-----------------------------------------------------------------------------
(* The compiler as a state machine *)

Init ==
    /\ NoText
    /\ tokens = <<>>
    /\ module \in Modules
    /\ functions_by_name = {}
    /\ functions_by_idx = <<>>
    /\ compiled_funs = <<>>
    /\ errors = <<>>
    /\ fn_idx = 0
    /\ ctx = EmptyCtx
    /\ frames = <<>>
    /\ phase = "start"
    /\ program = <<>>
    /\ stmts = 0
    /\ last = NoStatement

LowerAssignment ==
    \E name \in AssignNames, value \in Exprs :
        CanStart /\ LowerStatement(Assignment(name, "name_ref", value))
LowerReturn == CanStart /\ LowerStatement(Return("return_kw"))
LowerReturnValue ==
    \E value \in Exprs : CanStart /\ LowerStatement(ReturnValue(value, "value_ref"))
LowerContinue == CanStart /\ LowerStatement(Continue("continue_kw"))
LowerBreak == CanStart /\ LowerStatement(Break("break_kw"))
LowerCall == \E call \in Calls : CanStart /\ LowerStatement(CallStatement(call))
LowerIf == \E condition \in Conditions : CanNest /\ LowerIfBegin(condition)
LowerIfSegment ==
    \/ \E condition \in Conditions : CanStart /\ LowerIfSegmentEnd("elseif", condition)
    \/ \E more \in {"else", "none"} : LowerIfSegmentEnd(more, Lit1)
LowerWhile == CanNest /\ LowerWhileBegin
LowerWhileCondition == \E condition \in Conditions : LowerWhileEnd(condition)

Next ==
    \/ CompileModuleBegin
    \/ CompileFunctionBegin
    \/ LowerAssignment
    \/ LowerReturn
    \/ LowerReturnValue
    \/ LowerContinue
    \/ LowerBreak
    \/ LowerCall
    \/ LowerIf
    \/ LowerIfSegment
    \/ LowerIfElseEnd
    \/ LowerWhile
    \/ LowerWhileCondition
    \/ CompileFunctionEnd
    \/ Link

Spec == Init /\ [][Next]_vars

-----------------------------------------------------------------------------
(* main alone, with the names the compiler tells apart: locals, the signal  *)
(* names of both ranges, and signal names whose suffix is no signal number. *)

Y == <<"y">>
SignalNames ==
    {signal(<<"1">>), signal(<<"5">>), signal(<<"6">>), signal(<<"0">>), signal(<<"x">>)}
VariableNames == {X, Y} \cup SignalNames
VariableExprs ==
    {Lit1, VarX, Variable(signal(<<"5">>), "signal_pos"),
     Variable(signal(<<"6">>), "signal_pos"), Variable(signal(<<"x">>), "signal_pos")}

InitMain == Init /\ module = <<MainFn>>

AssignVariable ==
    \E name \in VariableNames, value \in VariableExprs :
        CanStart /\ LowerStatement(Assignment(name, "name_ref", value))
NestIf == CanNest /\ LowerIfBegin(Lit1)
NestIfEnd == LowerIfSegmentEnd("none", Lit1)

NextVariables ==
    \/ CompileModuleBegin
    \/ CompileFunctionBegin
    \/ AssignVariable
    \/ NestIf
    \/ NestIfEnd
    \/ CompileFunctionEnd
    \/ Link

SpecVariables == InitMain /\ [][NextVariables]_vars

-----------------------------------------------------------------------------
(* main alone, assigning binary expressions of every operator to x *)

Lit2 == Literal(2)
OperatorExprs ==
    {Lit1} \cup
    {Binary(VarX, Lit1, operator) : operator \in BinaryOperator} \cup
    {Binary(Lit2, Binary(VarX, Lit1, "Subtract"), operator) : operator \in BinaryOperator}

AssignOperator ==
    \E value \in OperatorExprs :
        CanStart /\ LowerStatement(Assignment(X, "name_ref", value))

NextOperators ==
    \/ CompileModuleBegin
    \/ CompileFunctionBegin
    \/ AssignOperator
    \/ CompileFunctionEnd
    \/ Link

SpecOperators == InitMain /\ [][NextOperators]_vars

-----------------------------------------------------------------------------
(* The whole pipeline of main.rs on the tokens of                           *)
(*     void main() { x = 1; S }                                             *)
(* where S is an assignment to x of a flat expression, a compound           *)
(* assignment to x, or a statement that does not parse.                     *)

OperatorTokens ==
    {<<Tok("Plus")>>, <<Tok("Minus")>>, <<Tok("Star")>>, <<Tok("ForwardSlash")>>,
     <<Tok("Percent")>>, <<Tok("Carat")>>, <<Tok("Ampersand")>>, <<Tok("Bar")>>,
     <<Tok("Equals"), Tok("Equals")>>, <<Tok("Bang"), Tok("Equals")>>,
     <<Tok("LeftArrow")>>, <<Tok("LeftArrow"), Tok("Equals")>>,
     <<Tok("RightArrow")>>, <<Tok("RightArrow"), Tok("Equals")>>}

CompoundTokens ==
    {Tok("Plus"), Tok("Minus"), Tok("Star"), Tok("ForwardSlash"), Tok("Carat"),
     Tok("Ampersand"), Tok("Bar")}

FirstOperands ==
    {<<Identifier(X)>>,
     <<Tok("Minus"), Identifier(X)>>,
     <<Tok("OpenParen"), Identifier(X), Tok("Plus"), Number(7), Tok("CloseParen")>>}

\* The flat expressions u0 o1 u1 ... on un with n operators; ui is the number i.
RECURSIVE FlatExpressions(_)
FlatExpressions(n) ==
    IF n = 0 THEN FirstOperands
    ELSE {e \o o \o <<Number(n)>> : e \in FlatExpressions(n - 1), o \in OperatorTokens}

StatementTokens ==
    {<<Identifier(X), Tok("Equals")>> \o e \o <<Tok("Semicolon")>> :
        e \in UNION {FlatExpressions(n) : n \in 0..MaxOperators}}
    \cup
    {<<Identifier(X), t, Tok("Equals")>> \o e \o <<Tok("Semicolon")>> :
        t \in CompoundTokens, e \in FlatExpressions(0) \cup FlatExpressions(1)}
    \cup
    {<<Identifier(X), Tok("Plus"), Tok("Semicolon")>>,
     <<Identifier(X), Tok("Equals"), Number(1), Tok("Plus"), Tok("Semicolon")>>}

MainTokens(statement) ==
    <<Tok("Void"), Identifier(ENTRY_POINT), Tok("OpenParen"), Tok("CloseParen"),
      Tok("OpenBrace"), Identifier(X), Tok("Equals"), Number(1), Tok("Semicolon")>>
    \o statement \o <<Tok("CloseBrace"), Tok("EndOfFile")>>

InitTokens ==
    /\ NoText
    /\ tokens \in {MainTokens(statement) : statement \in StatementTokens}
    /\ module = <<>>
    /\ functions_by_name = {}
    /\ functions_by_idx = <<>>
    /\ compiled_funs = <<>>
    /\ errors = <<>>
    /\ fn_idx = 0
    /\ ctx = EmptyCtx
    /\ frames = <<>>
    /\ phase = "tokens"
    /\ program = <<>>
    /\ stmts = 0
    /\ last = NoStatement

\* main.rs: parse_module on the tokens; its `?` ends the run on a diagnostic.
\* A parser that does not return leaves the run diverged; a failed assertion
\* ends it; so does, in a build that checks overflow, a position below 0,
\* which is usize::MAX in a build that does not.
ParseModule ==
    /\ phase = "tokens"
    /\ \E r \in {parse_module(TokenIterator(tokens))} :
          IF r.iter.stalled
          THEN module' = module /\ phase' = "diverged" /\ errors' = errors
          ELSE IF r.iter.asserted
          THEN module' = module /\ phase' = "asserted" /\ errors' = errors
          ELSE IF r.iter.low < 0
          THEN module' = module /\ phase' = "underflowed" /\ errors' = errors
          ELSE IF r.ok
          THEN module' = r.v /\ phase' = "start" /\ errors' = errors
          ELSE module' = module /\ phase' = "failed" /\ errors' = r.err
    /\ UNCHANGED <<text_vars, tokens, functions_by_name, functions_by_idx, compiled_funs, fn_idx,
                   ctx, frames, program, stmts, last>>

\* emit_block on the block of the function: its next statement.
LowerParsed ==
    /\ InBody /\ Len(frames) = 1
    /\ stmts < Len(module[fn_idx].block)
    /\ module[fn_idx].block[stmts + 1].k \notin {"If", "While"}
    /\ LowerStatement(module[fn_idx].block[stmts + 1])

FinishParsed ==
    /\ InBody
    /\ stmts = Len(module[fn_idx].block)
    /\ CompileFunctionEnd

NextTokens ==
    \/ ParseModule
    \/ CompileModuleBegin
    \/ CompileFunctionBegin
    \/ LowerParsed
    \/ FinishParsed
    \/ Link

SpecTokens == InitTokens /\ [][NextTokens]_vars

-----------------------------------------------------------------------------
(* The whole pipeline of main.rs on the tokens of source files made of an   *)
(* optional function f, with one of several parameter lists and an empty    *)
(* body, and of main, whose body holds up to MaxBodyStatements simple       *)
(* statements, some of which do not parse, and may lack its closing brace.  *)

ParameterLists ==
    {<<>>,
     <<Identifier(A)>>,
     <<Identifier(A), Tok("Comma"), Identifier(B)>>,
     <<Identifier(A), Tok("Comma")>>,
     <<Identifier(A), Identifier(B)>>,
     <<Tok("Comma")>>}

FunctionFTokens(parameters) ==
    <<Tok("Int"), Identifier(F), Tok("OpenParen")>> \o parameters
    \o <<Tok("CloseParen"), Tok("OpenBrace"), Tok("CloseBrace")>>

BodyStatements ==
    {<<Identifier(X), Tok("Equals"), Number(1), Tok("Semicolon")>>,
     <<Identifier(Y), Tok("Equals"), Number(1), Tok("Semicolon")>>,
     <<Identifier(X), Tok("Equals"), Tok("Semicolon")>>,
     <<Identifier(Y), Tok("Equals"), Tok("Semicolon")>>,
     <<Identifier(X), Tok("Equals"), Number(1), Number(1), Tok("Semicolon")>>}

RECURSIVE Bodies(_)
Bodies(n) ==
    IF n = 0 THEN {<<>>}
    ELSE Bodies(n - 1) \cup {b \o st : b \in Bodies(n - 1), st \in BodyStatements}

SourceTokens ==
    {f \o <<Tok("Void"), Identifier(ENTRY_POINT), Tok("OpenParen"), Tok("CloseParen"),
            Tok("OpenBrace")>> \o body \o closing \o <<Tok("EndOfFile")>> :
        f \in {<<>>} \cup {FunctionFTokens(parameters) : parameters \in ParameterLists},
        body \in Bodies(MaxBodyStatements),
        closing \in {<<Tok("CloseBrace")>>, <<>>}}

InitSources ==
    /\ NoText
    /\ tokens \in SourceTokens
    /\ module = <<>>
    /\ functions_by_name = {}
    /\ functions_by_idx = <<>>
    /\ compiled_funs = <<>>
    /\ errors = <<>>
    /\ fn_idx = 0
    /\ ctx = EmptyCtx
    /\ frames = <<>>
    /\ phase = "tokens"
    /\ program = <<>>
    /\ stmts = 0
    /\ last = NoStatement

SpecSources == InitSources /\ [][NextTokens]_vars

-----------------------------------------------------------------------------
(* Calls of every shape emit_call tells apart, as statements and as values: *)
(* of a missing function, of void main, of f with two, one and no argument, *)
(* and with a failing call among the arguments.                             *)

CallCases ==
    {CallF(<<Lit1, VarX>>), CallF(<<Lit1>>), CallF(<<>>), CallMain,
     Call(ENTRY_POINT, "main_call_ref", <<Lit1>>, "main_args_ref"),
     CallF(<<Lit1, CallExpr(CallF(<<Lit1>>))>>),
     CallF(<<CallExpr(CallMain), Lit1>>)}

InitCalls == Init /\ module \in {<<MainFn>>, <<IntF, MainFn>>}

CallAsStatement == \E call \in CallCases : CanStart /\ LowerStatement(CallStatement(call))
CallAsValue ==
    \E call \in CallCases :
        CanStart /\ LowerStatement(Assignment(X, "name_ref", CallExpr(call)))

NextCalls ==
    \/ CompileModuleBegin
    \/ CompileFunctionBegin
    \/ CallAsStatement
    \/ CallAsValue
    \/ CompileFunctionEnd
    \/ Link

SpecCalls == InitCalls /\ [][NextCalls]_vars

-----------------------------------------------------------------------------
(* Modules with and without an entry point of the right signature, and with *)
(* a name declared twice; the bodies return, return a value, or call.       *)

IntMain == Function(ENTRY_POINT, "main_ref", <<>>, TRUE)
MainA == Function(ENTRY_POINT, "main_ref", <<A>>, FALSE)
IntMainA == Function(ENTRY_POINT, "main_ref", <<A>>, TRUE)
VoidF == Function(F, "f_decl_ref", <<>>, FALSE)

EntryPointModules ==
    {<<>>, <<MainFn>>, <<IntF>>, <<VoidF>>, <<IntMain>>, <<MainA>>, <<IntMainA>>,
     <<IntF, MainFn>>, <<IntF, IntMain>>, <<MainA, VoidF>>, <<VoidF, IntMainA>>,
     <<MainFn, MainFn>>, <<IntF, IntF>>}

InitEntryPoints ==
    /\ NoText
    /\ tokens = <<>>
    /\ module \in EntryPointModules
    /\ functions_by_name = {}
    /\ functions_by_idx = <<>>
    /\ compiled_funs = <<>>
    /\ errors = <<>>
    /\ fn_idx = 0
    /\ ctx = EmptyCtx
    /\ frames = <<>>
    /\ phase = "start"
    /\ program = <<>>
    /\ stmts = 0
    /\ last = NoStatement

NextEntryPoints ==
    \/ CompileModuleBegin
    \/ CompileFunctionBegin
    \/ LowerReturn
    \/ LowerReturnValue
    \/ LowerCall
    \/ CompileFunctionEnd
    \/ Link

SpecEntryPoints == InitEntryPoints /\ [][NextEntryPoints]_vars

-----------------------------------------------------------------------------
(* try_compile of main.rs up to its call of tokenize, on every text of up   *)
(* to MaxSourceLen characters of a letter of a keyword, a digit, a symbol,  *)
(* an invalid character, a space and a newline, and on numbers around the   *)
(* largest i32.                                                             *)

SourceChars == {"i", "f", "1", "+", "#", " ", "\n"}

RECURSIVE Texts(_)
Texts(n) ==
    IF n = 0 THEN {<<>>}
    ELSE Texts(n - 1) \cup {Append(text, c) : text \in Texts(n - 1), c \in SourceChars}

LongNumbers ==
    {<<"2", "1", "4", "7", "4", "8", "3", "6", "4", "7">>,
     <<"2", "1", "4", "7", "4", "8", "3", "6", "4", "8">>,
     <<"4", "2", "9", "4", "9", "6", "7", "2", "9", "7">>}

Sources == Texts(MaxSourceLen) \cup LongNumbers

InitLexer ==
    /\ source \in Sources
    /\ lexed = NotRun
    /\ instr = NotRun
    /\ instr_text = <<>>
    /\ instr_parsed = NotRun
    /\ tokens = <<>>
    /\ module = <<>>
    /\ functions_by_name = {}
    /\ functions_by_idx = <<>>
    /\ compiled_funs = <<>>
    /\ errors = <<>>
    /\ fn_idx = 0
    /\ ctx = EmptyCtx
    /\ frames = <<>>
    /\ phase = "source"
    /\ program = <<>>
    /\ stmts = 0
    /\ last = NoStatement

\* try_compile: `lexer::tokenize(source)?`, in a build with or without
\* overflow checks.
Tokenize ==
    /\ phase = "source"
    /\ \E overflow_checks \in BOOLEAN :
          \E r \in {tokenize(source, overflow_checks)} :
              /\ lexed' = r
              /\ IF r.kind = "Ok"
                 THEN /\ tokens' = [i \in 1..Len(r.tokens) |-> r.tokens[i].token]
                      /\ errors' = errors
                      /\ phase' = "tokens"
                 ELSE IF r.kind = "Err"
                 THEN /\ tokens' = tokens
                      /\ errors' = r.errors
                      /\ phase' = "failed"
                 ELSE /\ tokens' = tokens
                      /\ errors' = errors
                      /\ phase' = "panicked"
    /\ UNCHANGED <<source, instr, instr_text, instr_parsed, module, functions_by_name,
                   functions_by_idx, compiled_funs, fn_idx, ctx, frames, program, stmts,
                   last>>

NextLexer == Tokenize

SpecLexer == InitLexer /\ [][NextLexer]_vars

-----------------------------------------------------------------------------
(* Every instruction, with arguments of one and of several digits, of both  *)
(* signs and at the ends of i32, written as text and read back.             *)

Arguments == {0, 1, 2, 9, 10, 27, 100, 65536, I32_MAX, -1, -10, -27, 0 - I32_MAX, I32_MIN}

Instructions ==
    {[op |-> op, arg |-> arg] : op \in ArgumentOps, arg \in Arguments}
    \cup {e.value : e \in NO_ARG_INSTRUCTIONS}

InitAssembly ==
    /\ source = <<>>
    /\ lexed = NotRun
    /\ instr \in Instructions
    /\ instr_text = <<>>
    /\ instr_parsed = NotRun
    /\ tokens = <<>>
    /\ module = <<>>
    /\ functions_by_name = {}
    /\ functions_by_idx = <<>>
    /\ compiled_funs = <<>>
    /\ errors = <<>>
    /\ fn_idx = 0
    /\ ctx = EmptyCtx
    /\ frames = <<>>
    /\ phase = "instruction"
    /\ program = <<>>
    /\ stmts = 0
    /\ last = NoStatement

\* The instruction is written with its Display form.
WriteInstruction ==
    /\ phase = "instruction"
    /\ instr_text' = Display(instr)
    /\ phase' = "written"
    /\ UNCHANGED <<source, lexed, instr, instr_parsed, tokens, module, functions_by_name,
                   functions_by_idx, compiled_funs, errors, fn_idx, ctx, frames, program,
                   stmts, last>>

\* The text is converted back with TryFrom<&str>.
ReadInstruction ==
    /\ phase = "written"
    /\ instr_parsed' = TryFrom(instr_text)
    /\ phase' = "read"
    /\ UNCHANGED <<source, lexed, instr, instr_text, tokens, module, functions_by_name,
                   functions_by_idx, compiled_funs, errors, fn_idx, ctx, frames, program,
                   stmts, last>>

NextAssembly ==
    \/ WriteInstruction
    \/ ReadInstruction

SpecAssembly == InitAssembly /\ [][NextAssembly]_vars

-----------------------------------------------------------------------------
(* Functions with two, one and no parameter and with a parameter name       *)
(* declared twice; their bodies assign to and read parameters and locals,   *)
(* at the top level and inside an if block, and return values.              *)

VarA == Variable(A, "a_pos")
VarB == Variable(B, "b_pos")
FrameModules ==
    {<<IntF, MainFn>>,
     <<Function(F, "f_decl_ref", <<A>>, FALSE), MainFn>>,
     <<Function(F, "f_decl_ref", <<A, A>>, TRUE), MainFn>>}
FrameNames == {X, A}
FrameExprs == {Lit1, VarX, VarA, VarB, Binary(VarA, VarB, "Add")}

InitFrames == Init /\ module \in FrameModules

AssignInFrame ==
    \E name \in FrameNames, value \in FrameExprs :
        CanStart /\ LowerStatement(Assignment(name, "name_ref", value))
ReturnFromFrame ==
    \E value \in FrameExprs : CanStart /\ LowerStatement(ReturnValue(value, "value_ref"))

NextFrames ==
    \/ CompileModuleBegin
    \/ CompileFunctionBegin
    \/ AssignInFrame
    \/ ReturnFromFrame
    \/ NestIf
    \/ NestIfEnd
    \/ CompileFunctionEnd
    \/ Link

SpecFrames == InitFrames /\ [][NextFrames]_vars

-----------------------------------------------------------------------------
(* parse_module of main.rs on the tokens of                                 *)
(*     void main() { f(ARGS); }                                             *)
(* where ARGS is any list of up to MaxTokens tokens that are an identifier, *)
(* a number, a comma or a minus sign, and on the token lists that start as  *)
(* nothing, as `void main(`, as `void main() {`, as `void main() { if 1 { }`*)
(* or as `void main() { if 1 { } else if 1 { }` and go on with any list of  *)
(* up to MaxTokens tokens of thirteen kinds.                                *)

ArgumentTokens == <<Identifier(A), Number(1), Tok("Comma"), Tok("Minus")>>

\* The lists of up to n numbers of 1..k, each the index of a token.
RECURSIVE IndexLists(_, _)
IndexLists(k, n) ==
    IF n = 0 THEN {<<>>}
    ELSE IndexLists(k, n - 1)
         \cup {Append(is, i) : is \in IndexLists(k, n - 1), i \in 1..k}

TokensOf(alphabet, is) == [j \in 1..Len(is) |-> alphabet[is[j]]]

CallPrefix ==
    <<Tok("Void"), Identifier(ENTRY_POINT), Tok("OpenParen"), Tok("CloseParen"),
      Tok("OpenBrace"), Identifier(F), Tok("OpenParen")>>

CallSuffix == <<Tok("CloseParen"), Tok("Semicolon"), Tok("CloseBrace"), Tok("EndOfFile")>>

CallTokens(is) == CallPrefix \o TokensOf(ArgumentTokens, is) \o CallSuffix

FollowingTokens ==
    <<Tok("Void"), Identifier(X), Number(1), Tok("OpenParen"), Tok("CloseParen"),
      Tok("OpenBrace"), Tok("CloseBrace"), Tok("Semicolon"), Tok("Comma"), Tok("Equals"),
      Tok("If"), Tok("Else"), Tok("Minus")>>

FunctionPrefix ==
    <<Tok("Void"), Identifier(ENTRY_POINT), Tok("OpenParen"), Tok("CloseParen"),
      Tok("OpenBrace")>>

Prefixes ==
    <<<<>>,
      SubSeq(FunctionPrefix, 1, 3),
      FunctionPrefix,
      FunctionPrefix \o <<Tok("If"), Number(1), Tok("OpenBrace"), Tok("CloseBrace")>>,
      FunctionPrefix \o <<Tok("If"), Number(1), Tok("OpenBrace"), Tok("CloseBrace"),
                          Tok("Else"), Tok("If"), Number(1), Tok("OpenBrace"),
                          Tok("CloseBrace")>>>>

InitParser ==
    /\ NoText
    /\ \/ \E is \in IndexLists(Len(ArgumentTokens), MaxTokens) :
             tokens = CallTokens(is)
       \/ \E prefix \in 1..Len(Prefixes) :
             \E is \in IndexLists(Len(FollowingTokens), MaxTokens) :
                tokens = Prefixes[prefix] \o TokensOf(FollowingTokens, is)
                         \o <<Tok("EndOfFile")>>
    /\ module = <<>>
    /\ functions_by_name = {}
    /\ functions_by_idx = <<>>
    /\ compiled_funs = <<>>
    /\ errors = <<>>
    /\ fn_idx = 0
    /\ ctx = EmptyCtx
    /\ frames = <<>>
    /\ phase = "tokens"
    /\ program = <<>>
    /\ stmts = 0
    /\ last = NoStatement

NextParser == ParseModule

SpecParser == InitParser /\ [][NextParser]_vars

-----------------------------------------------------------------------------
(* try_compile of main.rs up to parse_module on the texts                   *)
(*     void main(){f(T);}     and     int main(){return T;}                 *)
(* where T is any text of up to MaxSourceLen characters.                    *)

CallText(text) ==
    <<"v", "o", "i", "d", " ", "m", "a", "i", "n", "(", ")", "{", "f", "(">>
    \o text \o <<")", ";", "}">>

ReturnText(text) ==
    <<"i", "n", "t", " ", "m", "a", "i", "n", "(", ")", "{", "r", "e", "t", "u", "r", "n",
      " ">> \o text \o <<";", "}">>

InitSpans ==
    /\ \E text \in Texts(MaxSourceLen) : source \in {CallText(text), ReturnText(text)}
    /\ lexed = NotRun
    /\ instr = NotRun
    /\ instr_text = <<>>
    /\ instr_parsed = NotRun
    /\ tokens = <<>>
    /\ module = <<>>
    /\ functions_by_name = {}
    /\ functions_by_idx = <<>>
    /\ compiled_funs = <<>>
    /\ errors = <<>>
    /\ fn_idx = 0
    /\ ctx = EmptyCtx
    /\ frames = <<>>
    /\ phase = "source"
    /\ program = <<>>
    /\ stmts = 0
    /\ last = NoStatement

NextSpans ==
    \/ Tokenize
    \/ ParseModule

SpecSpans == InitSpans /\ [][NextSpans]_vars

-----------------------------------------------------------------------------
(* Properties of the linked program *)

JumpOps == {"Jump", "JumpIfZero", "JumpIfNonZero"}

RECURSIVE code_length_before(_, _)
code_length_before(funs, k) ==
    IF k <= 1 THEN 0
    ELSE Len(funs[k - 1]) + code_length_before(funs, k - 1)

\* The 1-based address at which the k-th function of the module is laid out.
FunctionAddress(k) == 3 + code_length_before(compiled_funs, k)

\* The position in the module of the function called `name`.
FunctionIndex(name) == CHOOSE k \in 1..Len(module) : module[k].name = name

\* The statement `l` records is a call statement, or an assignment or a return
\* whose value is a call; TopCall is that call.
HasTopCall(l) ==
    \/ l.k = "Call"
    \/ l.k \in {"Assignment", "ReturnValue"} /\ l.stmt.value.k = "Call"

TopCall(l) == IF l.k = "Call" THEN l.stmt.call ELSE l.stmt.value.call

\* The instructions the last statement appended.
Emitted == SubSeq(ctx.instructions, Len(last.pre.instructions) + 1, Len(ctx.instructions))

IsPrefix(p, q) == Len(p) <= Len(q) /\ SubSeq(q, 1, Len(p)) = p

\* C1: every Jump, JumpIfZero and JumpIfNonZero of the program compile_module
\* returns has an argument a with 1 <= a <= len(program).  Stated for the jumps
\* of the functions (addresses 3 and up): the prologue's own Jump is written as
\* Jump -1 in every program, and the claim fails without it too.
C1_JumpsInsideProgram ==
    phase = "linked" =>
        \A i \in 3..Len(program) :
            program[i].op \in JumpOps =>
                1 <= program[i].arg /\ program[i].arg <= Len(program)

\* C2: in the program compile_module returns, the prologue's JumpSubRoutine is
\* the address of main's first instruction, every call site's JumpSubRoutine is
\* the address of the first instruction of the function its call names, and the
\* functions lie in declaration order after the two-instruction prologue, the
\* first one at address 3; `void main() {}` links to
\* [JumpSubRoutine 3, Jump -1, Return].
C2_CallSiteNamesCallee ==
    (HasTopCall(last) /\ last.err = <<>>) =>
        \A i \in (Len(last.pre.instructions) + 1)..Len(ctx.instructions) :
            ctx.instructions[i].op = "JumpSubRoutine" =>
                ctx.instructions[i].arg + 1 = FunctionIndex(TopCall(last).function_name)

C2_Layout ==
    phase = "linked" =>
        /\ Len(program) = 2 + code_length_before(compiled_funs, Len(compiled_funs) + 1)
        /\ program[1] = [op |-> "JumpSubRoutine",
                         arg |-> FunctionAddress(FunctionIndex(ENTRY_POINT))]
        /\ \A k \in 1..Len(compiled_funs) : \A i \in 1..Len(compiled_funs[k]) :
              LET local == compiled_funs[k][i]
                  linked == program[FunctionAddress(k) + i - 1]
              IN /\ linked.op = local.op
                 /\ local.op = "JumpSubRoutine" =>
                        linked.arg = FunctionAddress(local.arg + 1)
        /\ compiled_funs = << <<[op |-> "Return"]>> >> =>
              program = <<[op |-> "JumpSubRoutine", arg |-> 3],
                          [op |-> "Jump", arg |-> -1], [op |-> "Return"]>>

C2_JumpSubRoutineTargets == C2_CallSiteNamesCallee /\ C2_Layout

\* A linked program in which a call site jumps to a function that is not the first.
C2_Witness ==
    /\ phase = "linked"
    /\ \E i \in 3..Len(program) :
          program[i].op = "JumpSubRoutine" /\ program[i].arg > 3

\* The stack effect of one executed instruction, as the machine applies it.
vm_delta(instruction) ==
    CASE instruction.op \in {"Load", "Constant"} -> 1
      [] instruction.op \in {"Jump", "Not", "JumpSubRoutine", "Return"} -> 0
      [] OTHER -> -1

\* The <<address, depth>> pairs that follow <<pc, d>> inside `code`.
successors(code, pc, d) ==
    LET instruction == code[pc]
        nd == d + vm_delta(instruction)
        next == CASE instruction.op = "Return" -> {}
                  [] instruction.op = "Jump" -> {<<instruction.arg, nd>>}
                  [] instruction.op \in {"JumpIfZero", "JumpIfNonZero"} ->
                        {<<instruction.arg, nd>>, <<pc + 1, nd>>}
                  [] OTHER -> {<<pc + 1, nd>>}
    IN {s \in next : s[1] \in 1..Len(code) /\ s[2] \in (0 - Len(code))..Len(code)}

\* Every <<address, depth>> some control-flow path from <<1, 0>> reaches.
RECURSIVE reachable(_, _)
reachable(code, seen) ==
    LET more == seen \cup UNION {successors(code, s[1], s[2]) : s \in seen}
    IN IF more = seen THEN seen ELSE reachable(code, more)

StackDisciplined(code) ==
    LET R == reachable(code, {<<1, 0>>})
    IN /\ \A s \in R : code[s[1]].op = "Return" => s[2] = 0
       /\ \A s, t \in R : s[1] = t[1] => s[2] = t[2]

\* C3: in a function's compiled code, walking every control-flow path from the
\* first instruction at depth 0 and applying each instruction's stack effect,
\* the depth is 0 at every Return and all paths that reach one instruction
\* reach it with the same depth.
C3_BalancedStack ==
    (phase = "next" /\ errors = <<>>) =>
        \A k \in 1..Len(compiled_funs) : StackDisciplined(compiled_funs[k])

\* The code of `expr` lowered with `depth` values on the tracked stack.
ExpressionCode(expr, c, depth) ==
    emit_expression(expr, [c EXCEPT !.instructions = <<>>, !.stack_size = depth])
        .ctx.instructions

RECURSIVE ArgumentsCode(_, _, _, _)
ArgumentsCode(arguments, i, c, depth) ==
    IF i > Len(arguments) THEN <<>>
    ELSE ExpressionCode(arguments[i], c, depth) \o
         ArgumentsCode(arguments, i + 1, c, depth + 1)

PopCode(n) == [i \in 1..n |-> [op |-> "Pop"]]

\* The shape C4 gives the code of a call, from the declaration of its callee.
CallCode(call, c, using_return_value) ==
    LET callee == module[FunctionIndex(call.function_name)]
        slot == IF callee.returns_value THEN 1 ELSE 0
    IN (IF callee.returns_value THEN <<[op |-> "Constant", arg |-> 0]>> ELSE <<>>)
       \o ArgumentsCode(call.arguments, 1, c, c.stack_size + slot)
       \o <<[op |-> "JumpSubRoutine", arg |-> FunctionIndex(call.function_name) - 1]>>
       \o PopCode(Len(callee.argument_names))
       \o (IF callee.returns_value /\ ~using_return_value
           THEN <<[op |-> "Pop"]>> ELSE <<>>)

\* C4: the code of a call to f with n parameters is Constant 0 iff f returns a
\* value, then the code of the arguments left to right, then one
\* JumpSubRoutine, then n Pop, then one more Pop iff f returns a value and the
\* call is a statement; the tracked stack size grows by 1 over a call used in
\* an expression and by 0 over a call statement.
C4_CallSequence ==
    (HasTopCall(last) /\ last.err = <<>>) =>
        IF last.k = "Call"
        THEN /\ Emitted = CallCode(last.stmt.call, last.pre, FALSE)
             /\ ctx.stack_size = last.pre.stack_size
        ELSE LET code == CallCode(last.stmt.value.call, last.pre, TRUE)
                 after == emit_expression(last.stmt.value, last.pre)
             IN /\ IsPrefix(code, Emitted)
                /\ after.ctx.instructions = last.pre.instructions \o code
                /\ after.ctx.stack_size = last.pre.stack_size + 1

\* A statement and an expression call of the two-parameter, value-returning f
\* have both been lowered: the statement one leaves its extra Pop.
C4_Witness ==
    /\ HasTopCall(last) /\ last.err = <<>>
    /\ Len(TopCall(last).arguments) = 2
    /\ TopCall(last).arguments[1] # TopCall(last).arguments[2]
    /\ \E i \in 1..Len(last.pre.instructions) :
          /\ last.pre.instructions[i].op = "JumpSubRoutine"
          /\ i + 3 <= Len(last.pre.instructions)
          /\ last.pre.instructions[i + 3].op = "Pop"
    /\ last.k = "Assignment"

\* The offsets the open scopes of `c` bind to `name`.
BoundOffsets(c, name) ==
    {b.offset : b \in {e \in UNION {c.scopes[i].scope_vars : i \in 1..Len(c.scopes)} :
                          e.name = name}}

\* C5: an assignment x = e to a name that does not start with signal_, with e
\* lowered without error: when some open scope binds x it emits the code of e
\* and one Save to x's slot, changes no binding and leaves the tracked stack
\* size as it was; when none does it emits the code of e and no Save, binds x
\* in the innermost scope to the stack size before the statement, and leaves
\* the tracked stack size one higher.
C5_AssignOrDeclare ==
    (/\ last.k = "Assignment" /\ last.err = <<>>
     /\ ~starts_with(last.stmt.variable_name, SIGNAL_PREFIX)) =>
        LET pre == last.pre
            x == last.stmt.variable_name
            code == ExpressionCode(last.stmt.value, pre, pre.stack_size)
            offsets == BoundOffsets(pre, x)
        IN IF offsets # {}
           THEN /\ \E o \in offsets :
                      Emitted = Append(code, [op |-> "Save",
                                              arg |-> pre.stack_size + 1 - o])
                /\ ctx.scopes = pre.scopes
                /\ ctx.stack_size = pre.stack_size
           ELSE /\ Emitted = code
                /\ ctx.scopes =
                      [pre.scopes EXCEPT ![Len(pre.scopes)].scope_vars =
                          @ \cup {[name |-> x, offset |-> pre.stack_size]}]
                /\ ctx.stack_size = pre.stack_size + 1

\* x has been declared above another local, and then assigned again.
C5_Witness ==
    /\ last.k = "Assignment" /\ last.err = <<>>
    /\ BoundOffsets(last.pre, last.stmt.variable_name) = {1}
    /\ last.pre.stack_size = 2
    /\ last.stmt.value = VarX
    /\ Emitted = <<[op |-> "Load", arg |-> 1], [op |-> "Save", arg |-> 2]>>

\* The 1-based positions of the open scopes of `c` that bind `name`.
BindingScopes(c, name) ==
    {i \in 1..Len(c.scopes) : \E b \in c.scopes[i].scope_vars : b.name = name}

BoundNames(c) ==
    {b.name : b \in UNION {c.scopes[i].scope_vars : i \in 1..Len(c.scopes)}}

Max(S) == CHOOSE m \in S : \A n \in S : n <= m
Min(S) == CHOOSE m \in S : \A n \in S : m <= n

\* The last statement assigned, without error, in a nested block to a name
\* that does not start with signal_ and that an enclosing scope binds.
NestedAssignmentToOuterName ==
    /\ last.k = "Assignment" /\ last.err = <<>>
    /\ ~starts_with(last.stmt.variable_name, SIGNAL_PREFIX)
    /\ Len(last.pre.scopes) >= 2
    /\ \E i \in BindingScopes(last.pre, last.stmt.variable_name) :
          i < Len(last.pre.scopes)

\* C6 as the specification words it: inner scopes shadow outer ones, so the
\* first assignment in a nested block to a name an enclosing open scope binds
\* declares a new variable in the nested block, and lookup of the name then
\* resolves to that innermost binding.
C6_InnerScopesShadow ==
    NestedAssignmentToOuterName =>
        LET x == last.stmt.variable_name
            inner == ctx.scopes[Len(ctx.scopes)].scope_vars
        IN /\ map_contains(inner, x)
           /\ get_variable_pos(ctx, x, "name_ref") = Ok(map_get(inner, x))

\* C6 as the code has it: there is no shadowing.  An assignment in a nested
\* block to a name (not starting with signal_) that an enclosing open scope
\* binds declares nothing and saves to that binding, so such a name is bound in
\* at most one open scope; and get_variable_pos resolves every bound name to
\* its binding in the outermost scope that holds it.
C6_NoShadowing ==
    /\ NestedAssignmentToOuterName =>
          /\ ctx.scopes = last.pre.scopes
          /\ Emitted[Len(Emitted)] =
                [op |-> "Save",
                 arg |-> ctx.stack_size + 1 -
                         get_variable_pos(last.pre, last.stmt.variable_name, "name_ref").v]
    /\ \A name \in BoundNames(ctx) :
          /\ ~starts_with(name, SIGNAL_PREFIX) =>
                Cardinality(BindingScopes(ctx, name)) = 1
          /\ get_variable_pos(ctx, name, "name_ref") =
                Ok(map_get(ctx.scopes[Min(BindingScopes(ctx, name))].scope_vars, name))

\* x is assigned inside an if block while the function's scope binds it.
C6_Witness ==
    /\ NestedAssignmentToOuterName
    /\ last.stmt.variable_name = X
    /\ BindingScopes(last.pre, X) = {1}
    /\ Len(ctx.scopes) = 2

\* The signal number a name's suffix spells, if it spells one.
SignalNumber(name) == parse_i32(SubSeq(name, Len(SIGNAL_PREFIX) + 1, Len(name)))
IsSignal(name) ==
    /\ SignalNumber(name).ok
    /\ 1 <= SignalNumber(name).v /\ SignalNumber(name).v <= SIGNAL_COUNT

\* C7: for a name that starts with signal_: when its suffix is an integer N
\* with 1 <= N <= 5, reading it emits Load -(5+N), assigning to it emits
\* Save -N, and no variable is declared; otherwise reading it and assigning to
\* it both end in a diagnostic, and no variable is declared.
C7_SignalNames ==
    /\ (/\ last.k = "Assignment"
        /\ starts_with(last.stmt.variable_name, SIGNAL_PREFIX)
        /\ emit_expression(last.stmt.value, last.pre).err = <<>>) =>
          IF IsSignal(last.stmt.variable_name)
          THEN /\ last.err = <<>>
               /\ Emitted[Len(Emitted)] =
                     [op |-> "Save", arg |-> 0 - SignalNumber(last.stmt.variable_name).v]
               /\ ctx.scopes = last.pre.scopes
          ELSE /\ last.err # <<>>
               /\ ctx.scopes = last.pre.scopes
    /\ (/\ last.k = "Assignment"
        /\ last.stmt.value.k = "Variable"
        /\ starts_with(last.stmt.value.name, SIGNAL_PREFIX)) =>
          IF IsSignal(last.stmt.value.name)
          THEN /\ last.err = <<>>
               /\ Emitted[1] = [op |-> "Load",
                                arg |-> 0 - (5 + SignalNumber(last.stmt.value.name).v)]
          ELSE /\ last.err # <<>>
               /\ ctx.scopes = last.pre.scopes

\* The opcode that has the name of the operator.
SameNameInstruction(operator) ==
    [op |-> CASE operator = "Equals" -> "Equal"
              [] operator = "NotEquals" -> "NotEqual"
              [] OTHER -> operator]

\* C8: for each of the 17 binary operators, Binary(left, right, operator)
\* lowers to the code of right, then the code of left, then the one opcode
\* that has the operator's name; Xor lowers to the Xor instruction.
C8_BinaryLowering ==
    (last.k = "Assignment" /\ last.stmt.value.k = "Binary" /\ last.err = <<>>) =>
        LET e == last.stmt.value
            depth == last.pre.stack_size
        IN IsPrefix(ExpressionCode(e.right, last.pre, depth)
                    \o ExpressionCode(e.left, last.pre, depth + 1)
                    \o <<SameNameInstruction(e.operator)>>,
                    Emitted)

-----------------------------------------------------------------------------
(* A reference precedence-climbing parser over the tokens.  Positions are   *)
(* 0-based token indices, as the FileRefs of the TokenIterator are.         *)

Level(operator) ==
    CASE operator = "Power" -> 5
      [] operator \in {"Multiply", "Divide", "Remainder"} -> 4
      [] operator \in {"Add", "Subtract"} -> 3
      [] operator \in {"Equals", "NotEquals", "LessThan", "LessThanOrEqual",
                       "GreaterThan", "GreaterThanOrEqual"} -> 2
      [] operator \in {"And", "Or"} -> 1

TokenAt(ts, p) == IF p < Len(ts) THEN ts[p + 1] ELSE Tok("EndOfFile")

\* The binary operator written at position p, if one is, and the position after it.
ref_operator(ts, p) ==
    LET t1 == TokenAt(ts, p).t
        t2 == TokenAt(ts, p + 1).t
        one(operator) == [some |-> TRUE, v |-> operator, next |-> p + 1]
        two(operator) == [some |-> TRUE, v |-> operator, next |-> p + 2]
        none == [some |-> FALSE, next |-> p]
    IN CASE t1 = "Equals" /\ t2 = "Equals" -> two("Equals")
         [] t1 = "Bang" /\ t2 = "Equals" -> two("NotEquals")
         [] t1 = "LeftArrow" /\ t2 = "Equals" -> two("LessThanOrEqual")
         [] t1 = "RightArrow" /\ t2 = "Equals" -> two("GreaterThanOrEqual")
         [] t1 = "LeftArrow" /\ t2 # "Equals" -> one("LessThan")
         [] t1 = "RightArrow" /\ t2 # "Equals" -> one("GreaterThan")
         [] t1 = "Plus" -> one("Add")
         [] t1 = "Minus" -> one("Subtract")
         [] t1 = "Star" -> one("Multiply")
         [] t1 = "ForwardSlash" -> one("Divide")
         [] t1 = "Percent" -> one("Remainder")
         [] t1 = "Carat" -> one("Power")
         [] t1 = "Ampersand" -> one("And")
         [] t1 = "Bar" -> one("Or")
         [] OTHER -> none

RECURSIVE ref_operand(_, _)
RECURSIVE ref_expression(_, _, _)
RECURSIVE ref_climb(_, _, _)

\* An operand of a well-formed expression: a name, a number, a prefix operator
\* on an operand, or an expression in parentheses.
ref_operand(ts, p) ==
    LET token == TokenAt(ts, p)
    IN CASE token.t = "Identifier" ->
               [tree |-> Variable(token.v, p), next |-> p + 1]
         [] token.t = "Number" -> [tree |-> Literal(token.v), next |-> p + 1]
         [] token.t = "Minus" ->
               With(ref_operand(ts, p + 1),
                    LAMBDA u : [tree |-> Unary(u.tree, "Negate"), next |-> u.next])
         [] token.t = "Tilda" ->
               With(ref_operand(ts, p + 1),
                    LAMBDA u : [tree |-> Unary(u.tree, "Not"), next |-> u.next])
         [] token.t = "OpenParen" ->
               With(ref_expression(ts, p + 1, 1),
                    LAMBDA e : [tree |-> e.tree, next |-> e.next + 1])

\* While the next operator binds at least as tightly as min_level, take as its
\* right operand everything that binds more tightly than it: left associative.
ref_climb(ts, left, min_level) ==
    With(ref_operator(ts, left.next),
         LAMBDA o :
            IF ~o.some \/ Level(o.v) < min_level THEN left
            ELSE With(ref_expression(ts, o.next, Level(o.v) + 1),
                      LAMBDA right :
                         ref_climb(ts,
                                   [tree |-> Binary(left.tree, right.tree, o.v),
                                    next |-> right.next],
                                   min_level)))

ref_expression(ts, p, min_level) == ref_climb(ts, ref_operand(ts, p), min_level)

\* The names and numbers of a tree, left to right.
RECURSIVE Leaves(_)
Leaves(expr) ==
    CASE expr.k = "Binary" -> Leaves(expr.left) \o Leaves(expr.right)
      [] expr.k = "Unary" -> Leaves(expr.value)
      [] OTHER -> <<expr>>

\* The names and numbers written at the positions p .. q - 1, left to right.
RECURSIVE OperandTokens(_, _, _)
OperandTokens(ts, p, q) ==
    IF p >= q THEN <<>>
    ELSE LET token == TokenAt(ts, p)
         IN (CASE token.t = "Identifier" -> <<Variable(token.v, p)>>
               [] token.t = "Number" -> <<Literal(token.v)>>
               [] OTHER -> <<>>)
            \o OperandTokens(ts, p + 1, q)

-----------------------------------------------------------------------------
(* Properties of the parser, on the second statement of main: its tokens    *)
(* start at position 9, after `void main ( ) { x = 1 ;`.                    *)

SecondStatementAt == Len(MainTokens(<<>>)) - 2
Parsed == module # <<>> /\ Len(module[1].block) = 2
SecondStatement == module[1].block[2]
IsPlainAssignment == TokenAt(tokens, SecondStatementAt + 1) = Tok("Equals")
IsCompoundAssignment ==
    /\ TokenAt(tokens, SecondStatementAt + 1) \in CompoundTokens
    /\ TokenAt(tokens, SecondStatementAt + 2) = Tok("Equals")

\* The operator a compound assignment names.
CompoundOperator(token) ==
    CASE token.t = "Plus" -> "Add"
      [] token.t = "Minus" -> "Subtract"
      [] token.t = "Star" -> "Multiply"
      [] token.t = "ForwardSlash" -> "Divide"
      [] token.t = "Carat" -> "Power"
      [] token.t = "Ampersand" -> "And"
      [] token.t = "Bar" -> "Or"

\* The position of the `;` that ends the second statement.
SemicolonAt == Len(tokens) - 3

\* `x op= e` parses to Assignment(x, Binary(Variable x, e, op)), e being the
\* reference tree of all the tokens between `=` and `;`.
C9_ParsedTree ==
    (Parsed /\ IsCompoundAssignment) =>
        \E e \in {ref_expression(tokens, SecondStatementAt + 3, 1)} :
            /\ e.next = SemicolonAt
            /\ SecondStatement =
                   Assignment(X, SecondStatementAt,
                       Binary(Variable(X, SecondStatementAt + 2), e.tree,
                              CompoundOperator(TokenAt(tokens, SecondStatementAt + 1))))

\* The tokens of the plain assignment `x = x op ( e ) ;` for the compound
\* assignment `x op= e ;` of the second statement.
PlainTokens ==
    <<Identifier(X), Tok("Equals"), Identifier(X), TokenAt(tokens, SecondStatementAt + 1),
      Tok("OpenParen")>>
    \o SubSeq(tokens, SecondStatementAt + 4, SemicolonAt)
    \o <<Tok("CloseParen"), Tok("Semicolon"), Tok("EndOfFile")>>

\* The code a compound assignment is lowered to is the code the plain
\* assignment is lowered to from the same context.
C9_SameCode ==
    (Parsed /\ IsCompoundAssignment /\ stmts = 2 /\ last.k = "Assignment") =>
        \E plain \in {parse_statement(TokenIterator(PlainTokens))} :
            /\ plain.ok
            /\ \E r \in {emit_statement(plain.v, last.pre)} :
                  /\ r.err = last.err
                  /\ r.ctx.instructions = ctx.instructions
                  /\ r.ctx.stack_size = ctx.stack_size

\* C9: for each compound operator of + - * / ^ & |, the statement `x op= e` is
\* parsed to exactly Assignment(x, Binary(left = Variable x, right = e,
\* operator = op)) with e the whole expression after `=`, and the instructions
\* emitted for it are those emitted for the plain assignment of `x op e` to x.
C9_CompoundAssignment == C9_ParsedTree /\ C9_SameCode

\* `x *= x + 1` has been parsed with the sum as the right operand and lowered
\* without a diagnostic.
C9_Witness ==
    /\ Parsed /\ IsCompoundAssignment /\ stmts = 2 /\ last.k = "Assignment"
    /\ last.err = <<>>
    /\ last.stmt = SecondStatement
    /\ SecondStatement.value =
           Binary(Variable(X, 11), Binary(Variable(X, 12), Literal(1), "Add"),
                  "Multiply")

\* C10: for every well-formed flat expression u0 o1 u1 ... on un, the tree
\* parse_expression returns is the tree of the reference precedence-climbing
\* parser with the ladder [^] > [* / %] > [+ -] > [== != < <= > >=] > [& |],
\* left associative inside each level, and the operands appear in the tree in
\* the order in which they are written.
C10_PrattEquivalence ==
    (Parsed /\ IsPlainAssignment) =>
        \E e \in {ref_expression(tokens, SecondStatementAt + 2, 1)} :
            /\ e.next = SemicolonAt
            /\ SecondStatement.k = "Assignment"
            /\ SecondStatement.value = e.tree
            /\ Leaves(SecondStatement.value) =
                   OperandTokens(tokens, SecondStatementAt + 2, SemicolonAt)

\* `x - 1 * 2` has been parsed to x - (1 * 2).
C10_Witness ==
    /\ Parsed /\ IsPlainAssignment
    /\ SecondStatement.value =
           Binary(Variable(X, 11), Binary(Literal(1), Literal(2), "Multiply"),
                  "Subtract")

-----------------------------------------------------------------------------
(* Properties of the parser's recovery, on the source files of SpecSources  *)

\* The position of the `{` of main, the last function of the file.
MainBraceAt ==
    CHOOSE p \in 0..(Len(tokens) - 1) :
        /\ TokenAt(tokens, p) = Tok("OpenBrace")
        /\ \A q \in (p + 1)..(Len(tokens) - 1) : TokenAt(tokens, q) # Tok("OpenBrace")

\* The result of parse_block on the body of main.
MainBlock == parse_block([TokenIterator(tokens) EXCEPT !.position = MainBraceAt])
BlockStatements(b) == IF b.ok THEN b.v ELSE b.statements
BlockErrors(b) == IF b.ok THEN <<>> ELSE b.err

\* The positions where the simple statements of main's body start: after the
\* `{` and after each `;`.
StatementStarts ==
    {p \in (MainBraceAt + 1)..(Len(tokens) - 1) :
        /\ p = MainBraceAt + 1 \/ TokenAt(tokens, p - 1) = Tok("Semicolon")
        /\ TokenAt(tokens, p).t \notin {"CloseBrace", "EndOfFile"}}

StatementAt(p) == parse_statement([TokenIterator(tokens) EXCEPT !.position = p])

\* The statements that parse, among those that start at from or later, in order.
RECURSIVE ParsedFrom(_)
ParsedFrom(from) ==
    IF \A p \in StatementStarts : p < from THEN <<>>
    ELSE With(Min({p \in StatementStarts : p >= from}),
              LAMBDA p :
                 (IF StatementAt(p).ok THEN <<StatementAt(p).v>> ELSE <<>>)
                 \o ParsedFrom(p + 1))

\* C11: when a simple statement of a block fails to parse, parse_block records
\* its diagnostics, skips tokens up to and including that statement's own `;`
\* and goes on with the statements that follow: the block's statements are all
\* the statements of the body that parse, and there is one diagnostic for each
\* statement that does not (for `x = ; y = 1;` one diagnostic, and `y = 1;` is
\* parsed as an assignment).
C11_StatementRecovery ==
    phase # "tokens" =>
        /\ BlockStatements(MainBlock) = ParsedFrom(0)
        /\ Len(BlockErrors(MainBlock)) =
               Cardinality({p \in StatementStarts : ~StatementAt(p).ok})
        /\ (phase = "failed" /\ module = <<>>) =>
               SubSeq(errors, Len(errors) - Len(BlockErrors(MainBlock)) + 1, Len(errors))
                   = BlockErrors(MainBlock)

\* C12: a block must end with `}`: parse_block returns a statement list only
\* when the statements are followed by a closing `}`, and a source file whose
\* last block meets the end of the file first (`void main() { x = 1;`) is
\* rejected with a diagnostic.
C12_BlockEndsWithBrace ==
    phase # "tokens" =>
        /\ MainBlock.ok => prev_token(MainBlock.iter) = Tok("CloseBrace")
        /\ module # <<>> => TokenAt(tokens, Len(tokens) - 2) = Tok("CloseBrace")

\* The file starts with the function f; its parameter list lies between the
\* `(` at position 2 and the first `)`.
HasFunctionF == TokenAt(tokens, 0) = Tok("Int")
ParametersEnd == Min({p \in 3..(Len(tokens) - 1) : TokenAt(tokens, p) = Tok("CloseParen")})
ParameterTokens == SubSeq(tokens, 4, ParametersEnd)

\* Identifiers separated by single commas, or nothing.
WellFormedParameters(ps) ==
    \/ ps = <<>>
    \/ /\ Len(ps) % 2 = 1
       /\ \A i \in 1..Len(ps) :
             IF i % 2 = 1 THEN ps[i].t = "Identifier" ELSE ps[i] = Tok("Comma")

ParameterNames(ps) ==
    [i \in 1..((Len(ps) + 1) \div 2) |-> ps[2 * i - 1].v]

ParsedFunctionF == parse_function(TokenIterator(tokens))

\* C13: parse_function accepts an empty parameter list and a list of
\* identifiers separated by single commas, with those names as the function's
\* argument names, and rejects with a diagnostic every other parameter list,
\* a list with a trailing comma such as `int f(a,) {}` among them.
C13_ParameterList ==
    (phase # "tokens" /\ HasFunctionF) =>
        /\ ParsedFunctionF.ok <=> WellFormedParameters(ParameterTokens)
        /\ ParsedFunctionF.ok =>
               ParsedFunctionF.v.argument_names = ParameterNames(ParameterTokens)
        /\ module # <<>> => module[1] = ParsedFunctionF.v

-----------------------------------------------------------------------------
(* Properties of the compiler's diagnostics *)

\* The statement being lowered lies in the body of a while statement.
InsideWhile == \E i \in 1..Len(frames) : frames[i].kind = "While"

\* C14: whenever a continue or break that is not lexically inside a while body
\* is lowered, the result is the diagnostic located at the keyword and no
\* instruction is emitted for it, also after earlier statements of the function
\* produced diagnostics.
C14_LoopControlOutsideLoop ==
    (last.k \in {"Continue", "Break"} /\ ~InsideWhile) =>
        /\ Len(last.err) = 1
        /\ last.err[1].position = last.stmt.pos
        /\ ctx.instructions = last.pre.instructions

\* The first of the three checks of emit_call that a call fails, "none" when
\* it passes them all.
NoSuchFunction(call) == ~fmap_contains(functions_by_name, call.function_name)
VoidInExpression(call, using_return_value) ==
    /\ ~NoSuchFunction(call)
    /\ ~fmap_get(functions_by_name, call.function_name).returns_value
    /\ using_return_value
WrongArgumentCount(call, using_return_value) ==
    /\ ~NoSuchFunction(call)
    /\ ~VoidInExpression(call, using_return_value)
    /\ fmap_get(functions_by_name, call.function_name).arg_count # Len(call.arguments)
RejectedCall(call, using_return_value) ==
    \/ NoSuchFunction(call)
    \/ VoidInExpression(call, using_return_value)
    \/ WrongArgumentCount(call, using_return_value)
CallLocation(call, using_return_value) ==
    IF WrongArgumentCount(call, using_return_value)
    THEN call.arguments_ref
    ELSE call.function_name_ref

\* C15: in every compile state, emit_call of a call to a missing function, of
\* a void function inside an expression, or with a wrong number of arguments
\* returns one diagnostic and leaves the instructions and the tracked stack
\* size as they were; the diagnostic is located at the argument list for a
\* wrong number of arguments and at the function name in the other two cases
\* (the cases taken in this order when several apply).  The statement just
\* lowered shows the same when its own call is such a call.
C15_RejectedCall ==
    /\ phase = "body" =>
          \A call \in CallCases, using_return_value \in BOOLEAN :
              RejectedCall(call, using_return_value) =>
                  \E r \in {emit_call(call, ctx, using_return_value)} :
                      /\ Len(r.err) = 1
                      /\ r.err[1].position = CallLocation(call, using_return_value)
                      /\ r.ctx.instructions = ctx.instructions
                      /\ r.ctx.stack_size = ctx.stack_size
    /\ (last.k = "Call" /\ RejectedCall(last.stmt.call, FALSE)) =>
          /\ Len(last.err) = 1
          /\ last.err[1].position = CallLocation(last.stmt.call, FALSE)
          /\ ctx.instructions = last.pre.instructions
          /\ ctx.stack_size = last.pre.stack_size
    /\ (last.k = "Assignment" /\ last.stmt.value.k = "Call"
          /\ RejectedCall(last.stmt.value.call, TRUE)) =>
          /\ Len(last.err) = 1
          /\ last.err[1].position = CallLocation(last.stmt.value.call, TRUE)
          /\ ctx.instructions = last.pre.instructions
          /\ ctx.stack_size = last.pre.stack_size

\* f, which returns a value, was just called with one argument as a statement
\* after a statement that emitted code.
C15_Witness ==
    /\ last.k = "Call"
    /\ WrongArgumentCount(last.stmt.call, FALSE)
    /\ fmap_get(functions_by_name, last.stmt.call.function_name).returns_value
    /\ last.err # <<>>
    /\ last.pre.instructions # <<>>

\* The module declares main as a void function without parameters.
HasEntryPoint(m) ==
    \E i \in 1..Len(m) :
        m[i].name = ENTRY_POINT /\ ~m[i].returns_value /\ m[i].argument_names = <<>>
\* compile_module registered the functions and compile_function returned the
\* code of each of them.
EveryFunctionCompiled == phase \in {"failed", "linked"} /\ Len(compiled_funs) = Len(module)

\* C16: compile_module returns a program only for a module with a void main
\* without parameters; when every function compiled without diagnostics and
\* main is missing, returns a value or takes parameters, it returns exactly one
\* diagnostic, which has no location, and no program.
C16_EntryPoint ==
    /\ phase = "linked" => (HasEntryPoint(module) /\ program # <<>>)
    /\ (EveryFunctionCompiled /\ ~HasEntryPoint(module)) =>
          /\ phase = "failed"
          /\ Len(errors) = 1
          /\ errors[1].position = "None"
          /\ program = <<>>

\* Both functions of a module compiled to code, and its main takes a parameter.
C16_Witness ==
    /\ EveryFunctionCompiled
    /\ phase = "failed"
    /\ Len(module) = 2
    /\ \E i \in 1..2 : module[i].name = ENTRY_POINT /\ module[i].argument_names # <<>>
    /\ \A i \in 1..2 : Len(compiled_funs[i]) > 1

\* One step of compile_module, seen from the diagnostics it has collected.
C17_Step ==
    /\ (phase = "body" /\ phase' = "body" /\ Len(frames') = 1 /\ last'.k # "None") =>
          frames'[1].errors = frames[1].errors \o last'.err
    /\ (phase = "body" /\ phase' # "body") =>
          /\ phase' = "next"
          /\ errors' = errors \o frames[1].errors
          /\ frames[1].errors # <<>> => compiled_funs' = compiled_funs
          /\ frames[1].errors = <<>> => Len(compiled_funs') = Len(compiled_funs) + 1
    /\ (phase = "next" /\ fn_idx < Len(module)) =>
          (phase' = "body" /\ fn_idx' = fn_idx + 1 /\ errors' = errors)
    /\ (phase = "next" /\ fn_idx = Len(module) /\ errors # <<>>) =>
          (phase' = "failed" /\ errors' = errors /\ program' = <<>>)

\* C17: a top-level statement that fails adds its diagnostics to those of the
\* function's block and the block goes on with its next statement; a function
\* that fails adds its diagnostics, in the order of the declarations, to those
\* of the module, and compile_module goes on with the next function; once
\* every function has been compiled and any of them failed, compile_module
\* returns the diagnostics collected and no program.
C17_DiagnosticsCollected == [][C17_Step]_vars

\* f and main both failed: f on two statements `return;`, main on a statement
\* `return 1;`, and compile_module returned their three diagnostics in order.
C17_Witness ==
    /\ module = <<IntF, MainFn>>
    /\ phase = "failed"
    /\ compiled_funs = <<>>
    /\ Len(errors) = 3
    /\ errors[1].position = "return_kw"
    /\ errors[2].position = "return_kw"
    /\ errors[3].position = "value_ref"

-----------------------------------------------------------------------------
(* Properties of the lexer, on the texts of SpecLexer *)

Unrecognized(c) ==
    /\ ~is_whitespace(c)
    /\ c \notin Digits
    /\ c \notin Letters
    /\ c # "_"
    /\ \A sym \in Symbols : sym.key # c

\* The line and the column of the character at the 0-based index idx.
LineOf(text, idx) == Cardinality({i \in 1..idx : text[i] = "\n"})
ColumnOf(text, idx) ==
    IF \E i \in 1..idx : text[i] = "\n"
    THEN idx - (CHOOSE i \in 1..idx : text[i] = "\n" /\ \A j \in (i + 1)..idx : text[j] # "\n")
    ELSE idx

\* The diagnostics of the unrecognized characters from index idx on.
RECURSIVE InvalidCharacters(_, _)
InvalidCharacters(text, idx) ==
    IF idx >= Len(text) THEN <<>>
    ELSE IF Unrecognized(text[idx + 1])
    THEN <<FileTaggedError(FileRef(LineOf(text, idx), ColumnOf(text, idx), 1),
                           "Invalid character")>>
         \o InvalidCharacters(text, idx + 1)
    ELSE InvalidCharacters(text, idx + 1)

\* C18: tokenize returns Ok or Err for every text.  It returns Ok exactly for
\* a text without unrecognized characters, with tokens of which the last and
\* no other is EndOfFile; on Err it returns no token and one `Invalid
\* character` diagnostic for each unrecognized character that is not
\* whitespace, in the order of the text and located at that character.
C18_TokenizeResult ==
    lexed # NotRun =>
        /\ lexed.kind \in {"Ok", "Err"}
        /\ lexed.kind = "Ok" <=> InvalidCharacters(source, 0) = <<>>
        /\ lexed.kind = "Ok" =>
              /\ Len(tokens) >= 1
              /\ \A i \in 1..Len(tokens) : tokens[i] = Tok("EndOfFile") <=> i = Len(tokens)
              /\ errors = <<>>
        /\ lexed.kind = "Err" =>
              /\ errors = InvalidCharacters(source, 0)
              /\ tokens = <<>>

\* The lines of a text, split at its newlines.
RECURSIVE Lines(_, _)
Lines(text, line) ==
    IF text = <<>> THEN <<line>>
    ELSE IF Head(text) = "\n" THEN <<line>> \o Lines(Tail(text), <<>>)
    ELSE Lines(Tail(text), Append(line, Head(text)))

\* The characters of the text that a FileRef covers.
Covered(text, ref) ==
    IF ref.line_index + 1 > Len(Lines(text, <<>>)) THEN <<>>
    ELSE SubSeq(Lines(text, <<>>)[ref.line_index + 1],
                ref.begin_char_index + 1, ref.begin_char_index + ref.length)

\* The characters are the text of the token: the name of an identifier, the
\* spelling of a keyword or a symbol, digits with the value of a number.
IsTextOf(token, chars) ==
    IF token.t = "Identifier" THEN chars = token.v
    ELSE IF token.t = "Number"
    THEN /\ chars # <<>>
         /\ \A i \in 1..Len(chars) : chars[i] \in Digits
         /\ parse_number(chars, 0, 0, FALSE).v = token.v
    ELSE \/ \E k \in KEYWORDS : k.value = token /\ k.key = chars
         \/ \E sym \in Symbols : sym.value = token /\ <<sym.key>> = chars

\* C19: the FileRef of every token but EndOfFile that tokenize returns
\* covers, on its line, exactly the characters of the token's text, wherever
\* the token stands in the text, at its very end included.
C19_TokenSpans ==
    (lexed # NotRun /\ lexed.kind = "Ok") =>
        \A i \in 1..(Len(lexed.tokens) - 1) :
            IsTextOf(lexed.tokens[i].token, Covered(source, lexed.tokens[i].ref))

-----------------------------------------------------------------------------
(* Properties of the instructions' text *)

\* C20: TryFrom<&str> of the text that Display wrote for an instruction
\* returns Ok of that instruction, for each of the 27 instructions and every
\* argument.
C20_DisplayRoundTrip ==
    phase = "read" => instr_parsed = Ok(instr)

-----------------------------------------------------------------------------
(* Properties of the code of a function *)

\* C21: in the code that compile_function returned for a function, no Jump,
\* JumpIfZero or JumpIfNonZero still has the placeholder argument -1.
C21_NoPlaceholderLeft ==
    \A f \in 1..Len(compiled_funs) :
        \A i \in 1..Len(compiled_funs[f]) :
            compiled_funs[f][i].op \in JumpOps => compiled_funs[f][i].arg # -1

\* An if chain was just lowered without a diagnostic.
ChainLowered == last.k = "If" /\ last.err = <<>>

\* C22: in the code of an if chain just lowered, the JumpIfZero of each
\* segment targets the address right after the segment's block and exit Jump;
\* a segment has an exit Jump exactly when it is not the last or an else
\* block follows; every exit Jump targets the address right after the chain.
C22_IfChain ==
    ChainLowered =>
        \A i \in 1..Len(last.segments) :
            /\ ctx.instructions[last.segments[i].jump_inst_idx + 1] =
                   [op |-> "JumpIfZero", arg |-> last.segments[i].segment_end + 1]
            /\ last.segments[i].segment_end = last.segments[i].body_end + 1
                   <=> (i < Len(last.segments) \/ last.has_else)
            /\ last.segments[i].segment_end = last.segments[i].body_end + 1 =>
                   ctx.instructions[last.segments[i].segment_end] =
                       [op |-> "Jump", arg |-> Len(ctx.instructions) + 1]

\* C23: the code that compile_function returned for a function ends with
\* Return, and each of its Jump, JumpIfZero and JumpIfNonZero targets one of
\* the addresses 1..Len of that code.
C23_JumpsInsideFunction ==
    \A f \in 1..Len(compiled_funs) :
        /\ compiled_funs[f] # <<>>
        /\ compiled_funs[f][Len(compiled_funs[f])] = [op |-> "Return"]
        /\ \A i \in 1..Len(compiled_funs[f]) :
              compiled_funs[f][i].op \in JumpOps =>
                  compiled_funs[f][i].arg \in 1..Len(compiled_funs[f])

\* A while loop was just lowered without a diagnostic.
WhileLowered == last.k = "While" /\ last.err = <<>>

\* The addresses of the loop just lowered: of its condition's code, and of
\* the instruction after its JumpIfNonZero.
ConditionAddress == last.condition_idx + 1
AfterLoopAddress == Len(ctx.instructions) + 1

AllPops(code, from, to) == \A i \in from..to : code[i] = [op |-> "Pop"]

\* C24: the code of a while loop just lowered is a Jump to C, the code of the
\* body, the Pops that close the loop scope, at address C the code of the
\* condition, and a JumpIfNonZero to the address after the first Jump.  Each
\* continue and break of the loop is the Pops down to the depth at the loop's
\* entry followed by a Jump, to C for continue and to the address after the
\* JumpIfNonZero for break, and leaves the tracked stack size as it was.
C24_WhileLayout ==
    WhileLowered =>
        /\ ctx.instructions[last.uncond_jump_idx + 1] =
               [op |-> "Jump", arg |-> ConditionAddress]
        /\ AllPops(ctx.instructions, last.body_end + 1, last.condition_idx)
        /\ ConditionAddress < Len(ctx.instructions)
        /\ ctx.instructions[Len(ctx.instructions)] =
               [op |-> "JumpIfNonZero", arg |-> last.uncond_jump_idx + 2]
        /\ \A k \in 1..Len(last.controls) :
              \E control \in {last.controls[k]} :
                 \E pops \in {control.stack_before - last.pre.stack_size} :
                    /\ AllPops(ctx.instructions, control.start + 1, control.start + pops)
                    /\ ctx.instructions[control.start + pops + 1] =
                           [op |-> "Jump",
                            arg |-> IF control.is_continue
                                    THEN ConditionAddress
                                    ELSE AfterLoopAddress]
                    /\ control.stack_after = control.stack_before

-----------------------------------------------------------------------------
(* Properties of the frame of a function *)

\* The function being compiled and the number of its parameters.
CurrentFunction == module[fn_idx]
ParameterCount == Len(CurrentFunction.argument_names)
IsParameter(name) ==
    \E i \in 1..ParameterCount : CurrentFunction.argument_names[i] = name
\* The frame offset of the parameter of that name (the last one, when the
\* name is declared twice): -(1+n)+i for the 0-based i.
ParameterOffset(name) ==
    (CHOOSE i \in 1..ParameterCount :
        /\ CurrentFunction.argument_names[i] = name
        /\ \A j \in (i + 1)..ParameterCount : CurrentFunction.argument_names[j] # name)
    - 1 - (1 + ParameterCount)
IsBound(c, name) ==
    \E i \in 1..Len(c.scopes) : \E b \in c.scopes[i].scope_vars : b.name = name
\* The frame offset of a variable: of a parameter by its number, of a local
\* as it was declared.
FrameOffset(c, name) ==
    IF IsParameter(name) THEN ParameterOffset(name)
    ELSE (CHOOSE b \in UNION {c.scopes[i].scope_vars : i \in 1..Len(c.scopes)} :
              b.name = name).offset

\* The Load sequence of a value of FrameExprs lowered with the tracked stack
\* size at depth, by the claim's rule for addresses.
ExpectedValueCode(value, depth) ==
    CASE value.k = "Literal" -> <<[op |-> "Constant", arg |-> value.value]>>
      [] value.k = "Variable" ->
            <<[op |-> "Load", arg |-> depth - FrameOffset(last.pre, value.name)]>>
      [] value.k = "Binary" ->
            <<[op |-> "Load", arg |-> depth - FrameOffset(last.pre, value.right.name)],
              [op |-> "Load", arg |-> depth + 1 - FrameOffset(last.pre, value.left.name)],
              [op |-> "Add"]>>
AddressesFrom(code) == {code[i].arg : i \in {j \in 1..Len(code) : code[j].op \in {"Load", "Save"}}}

\* C25: while a function with n parameters is compiled, parameter i is bound
\* to the frame offset -(1+n)+i, the slot of the return value is -(2+n), and
\* every local is bound to an offset >= 0; the Load and Save that a statement
\* emits for a variable, and the Save of `return e`, have the address
\* (tracked stack size before the instruction) - (frame offset), and that
\* address is >= 1.
C25_FrameAddresses ==
    phase = "body" =>
        /\ \A i \in 1..Len(ctx.scopes) : \A b \in ctx.scopes[i].scope_vars :
              IF IsParameter(b.name)
              THEN i = 1 /\ b.offset = ParameterOffset(b.name)
              ELSE b.offset >= 0
        /\ \A i \in 1..ParameterCount :
              \E b \in ctx.scopes[1].scope_vars : b.name = CurrentFunction.argument_names[i]
        /\ ctx.return_value_save_offset =
              IF CurrentFunction.returns_value THEN Some(0 - (2 + ParameterCount)) ELSE None
        /\ (last.k = "Assignment" /\ last.err = <<>>) =>
              /\ Emitted =
                    ExpectedValueCode(last.stmt.value, last.pre.stack_size)
                    \o (IF IsBound(last.pre, last.stmt.variable_name)
                        THEN <<[op |-> "Save",
                                arg |-> last.pre.stack_size + 1
                                        - FrameOffset(last.pre, last.stmt.variable_name)]>>
                        ELSE <<>>)
              /\ \A address \in AddressesFrom(Emitted) : address >= 1
        /\ (last.k = "ReturnValue" /\ last.err = <<>>) =>
              /\ SubSeq(Emitted, 1, Len(Emitted) - 1 - last.pre.stack_size) =
                    ExpectedValueCode(last.stmt.value, last.pre.stack_size)
                    \o <<[op |-> "Save",
                          arg |-> last.pre.stack_size + 1 + (2 + ParameterCount)]>>
              /\ \A address \in AddressesFrom(Emitted) : address >= 1

\* int f(a, b) { return a + b; } was lowered to Load 2, Load 4, Add, Save 5,
\* Return.
C25_Witness ==
    /\ phase = "body"
    /\ CurrentFunction = IntF
    /\ last.k = "ReturnValue"
    /\ ctx.instructions =
          <<[op |-> "Load", arg |-> 2], [op |-> "Load", arg |-> 4], [op |-> "Add"],
            [op |-> "Save", arg |-> 5], [op |-> "Return"]>>

\* C26: when emit_statement has returned, with Ok or with Err, as many scopes
\* are open as when it was called.
C26_ScopesBalanced ==
    last.k # "None" => Len(ctx.scopes) = Len(last.pre.scopes)

-----------------------------------------------------------------------------
(* Properties of the parser *)

IsCallSource ==
    /\ Len(tokens) >= Len(CallPrefix) + Len(CallSuffix)
    /\ \A i \in 1..Len(CallPrefix) : tokens[i].t = CallPrefix[i].t
    /\ tokens[Len(CallPrefix) - 1].v = F
    /\ \A i \in 1..Len(CallSuffix) :
          tokens[Len(tokens) - Len(CallSuffix) + i].t = CallSuffix[i].t

\* The tokens between the `(` and the `)` of the call of a call source.
BetweenParentheses == SubSeq(tokens, Len(CallPrefix) + 1, Len(tokens) - Len(CallSuffix))

\* The number of tokens an expression without parentheses is written with.
RECURSIVE expression_tokens(_)
RECURSIVE arguments_tokens(_)
expression_tokens(e) ==
    CASE e.k \in {"Literal", "Variable"} -> 1
      [] e.k = "Unary" -> 1 + expression_tokens(e.value)
      [] e.k = "Binary" ->
            expression_tokens(e.left) + expression_tokens(e.right)
            + (IF e.operator \in {"Equals", "NotEquals", "LessThanOrEqual",
                                  "GreaterThanOrEqual"} THEN 2 ELSE 1)
      [] e.k = "Call" -> 3 + arguments_tokens(e.call.arguments)

\* The number of tokens of expressions separated by single commas.
arguments_tokens(args) ==
    IF args = <<>> THEN 0
    ELSE IF Len(args) = 1 THEN expression_tokens(args[1])
    ELSE expression_tokens(args[1]) + 1 + arguments_tokens(Tail(args))

\* C27: when a call parses, the tokens between its parentheses are the tokens
\* of its arguments and one comma between each two of them, and nothing else.
C27_ArgumentList ==
    (phase = "start" /\ IsCallSource) =>
        Len(BetweenParentheses) = arguments_tokens(module[1].block[1].call.arguments)

\* The pairs of token indices get_ref_range was called with for the spans kept
\* in an expression, in a block and in the functions of a module.
RECURSIVE expression_spans(_)
RECURSIVE arguments_spans(_)
RECURSIVE block_spans(_)
RECURSIVE segments_spans(_)
expression_spans(e) ==
    CASE e.k = "Unary" -> expression_spans(e.value)
      [] e.k = "Binary" -> expression_spans(e.left) \cup expression_spans(e.right)
      [] e.k = "Call" -> {e.call.arguments_ref} \cup arguments_spans(e.call.arguments)
      [] OTHER -> {}

arguments_spans(args) ==
    IF args = <<>> THEN {}
    ELSE expression_spans(Head(args)) \cup arguments_spans(Tail(args))

segments_spans(segments) ==
    IF segments = <<>> THEN {}
    ELSE expression_spans(Head(segments).condition) \cup block_spans(Head(segments).block)
         \cup segments_spans(Tail(segments))

block_spans(block) ==
    IF block = <<>> THEN {}
    ELSE LET st == Head(block)
         IN (CASE st.k = "Assignment" -> expression_spans(st.value)
               [] st.k = "Call" ->
                     {st.call.arguments_ref} \cup arguments_spans(st.call.arguments)
               [] st.k = "ReturnValue" -> {st.value_ref} \cup expression_spans(st.value)
               [] st.k = "While" -> expression_spans(st.condition) \cup block_spans(st.block)
               [] st.k = "If" ->
                     segments_spans(st.segments)
                     \cup (IF st.else.some THEN block_spans(st.else.v) ELSE {})
               [] OTHER -> {})
            \cup block_spans(Tail(block))

ModuleSpans == UNION {block_spans(module[i].block) : i \in 1..Len(module)}

SpanOf(range) == ref_range(lexed.tokens[range.from + 1].ref, lexed.tokens[range.to + 1].ref)

\* C28: the length of every span get_ref_range built for a call or for a
\* returned expression is the difference of an end and a begin that is not
\* greater: it is not below 0.
C28_SpansDoNotUnderflow ==
    (phase = "start" /\ lexed.kind = "Ok") =>
        \A range \in ModuleSpans : SpanOf(range).length >= 0

\* C29: parse_module returns: no iteration of a loop of the parser leaves the
\* iterator where it found it, and the position is never moved back below 0.
C29_ParserTerminates == phase \notin {"diverged", "underflowed"}

\* parse_module has returned two diagnostics for `x void x`: one for each of
\* the two functions it tried, the second found by the recovery from the first.
C29_Witness ==
    /\ phase = "failed"
    /\ Len(tokens) = 4
    /\ tokens[1].t = "Identifier" /\ tokens[2].t = "Void" /\ tokens[3].t = "Identifier"
    /\ Len(errors) = 2

\* The operator parse_binary_operator returns for the tokens of an operator.
OperatorReturned(operator_tokens) ==
    parse_binary_operator(TokenIterator(operator_tokens \o <<Tok("EndOfFile")>>))

\* C30: the assertion of parse_expression that the reduction left exactly one
\* expression never fails, and every operator parse_binary_operator returns is
\* in a level of PRECEDENCE.
C30_ReducedToOne ==
    /\ phase # "asserted"
    /\ \A operator_tokens \in OperatorTokens :
          /\ OperatorReturned(operator_tokens).some
          /\ \E level \in 1..Len(PRECEDENCE) :
                OperatorReturned(operator_tokens).v \in PRECEDENCE[level]

\* x = x <= 1 + 2 was parsed: its two operators were reduced at two levels to
\* the one expression x <= (1 + 2).
C30_Witness ==
    /\ phase = "start"
    /\ Len(module[1].block) = 2
    /\ module[1].block[2].k = "Assignment"
    /\ module[1].block[2].value.k = "Binary"
    /\ module[1].block[2].value.operator = "LessThanOrEqual"
    /\ module[1].block[2].value.right.k = "Binary"
    /\ module[1].block[2].value.right.operator = "Add"

====
